---- MODULE Spec2Model ----
(***************************************************************************)
(* The WebSocket speed-test protocol of krishmishra/speedtest:             *)
(*   - the two JavaScript client drivers, SpeedTestWebSocketSdk.js         *)
(*     (operators Sdk_...) and SpeedTestWebSocketSdkNew.js (New_...),      *)
(*   - the server-side test controller, websocket-server.js (Srv_...).     *)
(* Handlers are operators from a state record to a state record, so that   *)
(* a handler, the callbacks it invokes and the promise continuations that  *)
(* run right after it compose as they do in the JavaScript run loop.       *)
(***************************************************************************)
EXTENDS Integers, Sequences, FiniteSets, TLC

\* ------------------------------------------------------------------ bounds
MaxCalls == 4        \* test calls accepted on one driver instance, sub-tests included
MaxUserCalls == 2    \* of these, the calls the caller made itself
MaxSockets == 2      \* WebSocket objects one driver instance creates
MaxTime == 1         \* clock ticks (Date.now() values 0..MaxTime)
MaxChains == 1       \* upload chunk-timer chains started on one driver
MaxSessionChains == 2 \* the same, for a driver that talks to its own server
MaxRecvFrames == 2   \* binary frames the peer sends between two download_start
MaxDownloads == 2    \* download requests the server takes on one connection
MaxTexts == 2        \* text frames a client sends on one connection
MaxBinaries == 2     \* binary frames a client sends on one connection

\* ------------------------------------------------------ program constants
NEW_CHUNK_SIZE == 65536          \* SdkNew sendUploadData chunkSize
NEW_TOTAL_SIZE == 524288         \* SdkNew sendUploadData totalSize (512 * 1024)
SDK_CHUNK_SIZE == 102400         \* Sdk sendUploadData chunkSize
SDK_CHUNKS == 10                 \* Sdk sendUploadData chunks
TEST_FILE_SIZE == 1048576        \* websocket-server.js TEST_FILE_SIZE (1024 * 1024)
DEFAULT_CHUNK_SIZE == 102400     \* websocket-server.js handleDownload default chunkSize

Null == 0            \* null / undefined: a reference, handler or id that is not set
EmptyId == -1        \* the request id "": a defined value that JavaScript takes as false

\* A request id as a condition ("if (requestId)"): null, undefined and "" are false.
Truthy(id) == id # Null /\ id # EmptyId

VARIABLES
  sdkClass,   \* "Sdk" (SpeedTestWebSocketSdk) or "New" (SpeedTestWebSocketSdkNew)
  sdk,        \* the driver instance's fields
  sock,       \* the WebSocket objects the driver created
  call,       \* the test calls made so far, each with the promise it returned
  timers,     \* pending setTimeout callbacks of the driver
  micro,      \* pending promise continuations (microtasks)
  now,        \* Date.now()
  nchains     \* upload chunk-timer chains started so far

VARIABLES
  ENABLE_AUTH, \* websocket-server.js: process.env.ENABLE_AUTH === 'true'
  srvWs,       \* the server's end of one connection: readyState, ws.uploadTracker, and
               \* whether the ws library hands a text frame to the listener as a Buffer
  downloads,   \* the closures of the handleDownload calls made on the connection
  srvNow,      \* the server's Date.now()
  wire,        \* what the server has put on the connection so far, summed up per test
  peer         \* what the client has put on the connection so far

clientVars == <<sdkClass, sdk, sock, call, timers, micro, now, nchains>>
serverVars == <<ENABLE_AUTH, srvWs, downloads, srvNow, wire, peer>>
vars == <<clientVars, serverVars>>

Sockets == 1..MaxSockets
Calls == 1..MaxCalls

SdkFields == {"ws", "isConnected", "testInProgress", "currentRequestId",
              "pingStartTime", "downloadStartTime", "uploadStartTime",
              "totalBytes", "receivedBytes", "uploadedBytes",
              "progressHandler", "completionHandler", "errorHandler"}

\* What one step does to the outside: the callbacks it invokes, the frames it sends,
\* the sockets it opens, the promises it settles.
NoFx == [progress |-> <<>>, completion |-> <<>>, errors |-> <<>>, sent |-> <<>>,
         opened |-> 0, settled |-> <<>>]

\* The state a handler works on: the driver's fields, its run-time environment and
\* the effects of the step so far.
World == [f \in SdkFields |-> sdk[f]] @@
         [cls |-> sdkClass, sock |-> sock, call |-> call, timers |-> timers,
          micro |-> micro, now |-> now, nchains |-> nchains, fx |-> NoFx,
          maxChains |-> MaxChains, ovf |-> FALSE, thrown |-> FALSE]

Commit(w) ==
  /\ ~w.ovf                      \* a step that would exceed a bound is not taken
  /\ sdk' = [f \in SdkFields |-> w[f]]
  /\ sock' = w.sock
  /\ call' = w.call
  /\ timers' = w.timers
  /\ micro' = w.micro
  /\ now' = w.now
  /\ nchains' = w.nchains
  /\ UNCHANGED serverVars
  /\ UNCHANGED sdkClass

\* ------------------------------------------------------------ run-time helpers
NoMsg == [type |-> "none", requestId |-> Null, val |-> 0, totalBytes |-> 0]
NoVal == [f |-> "none", n |-> 0, d |-> 1, err |-> ""]
Result(f, n, d) == [f |-> f, n |-> n, d |-> d, err |-> ""]
ErrResult(msg) == [f |-> "error", n |-> 0, d |-> 1, err |-> msg]
Frame(type, requestId, val) == [type |-> type, requestId |-> requestId, val |-> val, totalBytes |-> 0]
NoOpts == [onProgress |-> FALSE, onError |-> FALSE, size |-> 0]
NoCall == [kind |-> "none", pc |-> "end", promise |-> "none", parent |-> Null,
           onProgress |-> FALSE, onError |-> FALSE, size |-> 0, results |-> {}]
NoSock == [state |-> "none", opened |-> FALSE, connectP |-> "none", waiter |-> Null,
           seen |-> {}]

\* A promise continuation waiting in the microtask queue: the test call k after its
\* await of connect() ("resume"), or the runFullTest call k after its await of the
\* sub-test sub, which gave a result of field f or the error err ("full").
Micro(t, k, sub, ok, err, f) ==
  [t |-> t, k |-> k, sub |-> sub, ok |-> ok, err |-> err, f |-> f]

RECURSIVE Gcd(_, _)
Gcd(a, b) == IF b = 0 THEN a ELSE Gcd(b, a % b)

\* A number of the program: the rational n/d in lowest terms (d > 0), or the result
\* of a division by zero: Infinity (n > 0, d = 0) or NaN (n = 0, d = 0).
Rat(n, d) ==
  IF d = 0 THEN [n |-> IF n > 0 THEN 1 ELSE 0, d |-> 0]
  ELSE LET g == Gcd(IF n < 0 THEN -n ELSE n, d) IN [n |-> n \div g, d |-> d \div g]
RatLeq(a, b) == a.n * b.d <= b.n * a.d
RatMin(a, b) == IF RatLeq(a, b) THEN a ELSE b

FreeSocket(w) ==
  IF \E s \in Sockets : w.sock[s].state = "none"
  THEN CHOOSE s \in Sockets : w.sock[s].state = "none" /\ \A t \in 1..(s - 1) : w.sock[t].state # "none"
  ELSE Null

\* The request frames of the protocol.
Requests == {"ping", "download", "upload", "full_test"}

\* WebSocket.send(): on an OPEN socket the frame goes out; on a CLOSING or CLOSED
\* socket it is dropped silently.  (On a CONNECTING socket send() throws: SendThrows.)
\* The socket record keeps the requests the peer has got (seen).
WsSend(w, s, frame) ==
  IF w.sock[s].state = "open"
  THEN [w EXCEPT !.fx.sent = Append(@, [s |-> s, f |-> frame]),
                 !.sock[s].seen = IF frame.type \in Requests THEN @ \cup {frame.type} ELSE @]
  ELSE w

SendThrows(w, s) == s = Null \/ w.sock[s].state = "connecting"

\* WebSocket.close()
WsClose(w, s) ==
  IF w.sock[s].state \in {"connecting", "open"}
  THEN [w EXCEPT !.sock[s].state = "closing"]
  ELSE w

\* resolve()/reject() of the promise a test call returned: only the first one counts.
\* A sub-test of SdkNew.runFullTest wakes the runFullTest that awaits it.
Settle(w, k, how, err, val) ==
  IF w.call[k].promise # "pending" THEN w
  ELSE [w EXCEPT !.call[k].promise = how,
                 !.fx.settled = Append(@, [k |-> k, how |-> how, err |-> err, val |-> val]),
                 !.micro = IF w.call[k].parent # Null
                           THEN Append(@, Micro("full", w.call[k].parent, k, how = "resolved",
                                                err, val.f))
                           ELSE @]

\* "throw new Error(err)" at the top of an async test method: the promise the call
\* returns is rejected at once, and nothing else will ever happen to it.
Throw(w, parent, err) ==
  IF parent = Null
  THEN [w EXCEPT !.fx.settled = Append(@, [k |-> Null, how |-> "rejected", err |-> err,
                                           val |-> NoVal])]
  ELSE [w EXCEPT !.micro = Append(@, Micro("full", parent, Null, FALSE, err, "none"))]

\* A progress handler that hands the sub-test's value to the onProgress of the
\* runFullTest caller as it is (a faulty variant, which the property
\* C30_FullTestProgressRanges tells apart from Progress).
ProgressUnscaled(w, v) ==
  LET h == w.progressHandler IN
  IF h = Null THEN w
  ELSE IF w.call[h].parent = Null
  THEN [w EXCEPT !.fx.progress = Append(@, [k |-> h, v |-> v])]
  ELSE IF ~w.call[w.call[h].parent].onProgress THEN w
  ELSE [w EXCEPT !.fx.progress = Append(@, [k |-> w.call[h].parent, v |-> v])]

\* this.progressHandler(v), when set.  The handler of a sub-test of SdkNew.runFullTest
\* is runFullTest's wrapper, which passes 33 + v * 0.33 (download) or 66 + v * 0.34
\* (upload) to the onProgress of the runFullTest caller, when that was given.
Progress(w, v) ==
  LET h == w.progressHandler IN
  IF h = Null THEN w
  ELSE IF w.call[h].parent = Null
  THEN [w EXCEPT !.fx.progress = Append(@, [k |-> h, v |-> v])]
  ELSE IF ~w.call[w.call[h].parent].onProgress THEN w
  ELSE [w EXCEPT !.fx.progress =
          Append(@, [k |-> w.call[h].parent,
                     v |-> IF w.call[h].kind = "download"
                           THEN Rat(3300 * v.d + 33 * v.n, 100 * v.d)
                           ELSE Rat(6600 * v.d + 34 * v.n, 100 * v.d)])]

\* this.errorHandler(new Error(msg)), when set
ErrorCb(w, msg) ==
  IF w.errorHandler = Null THEN w
  ELSE [w EXCEPT !.fx.errors = Append(@, [k |-> w.errorHandler, msg |-> msg])]

\* The speed (bytes * 8) / (ms / 1000) bits per second of a byte count and a duration
\* in milliseconds, kept in bits per millisecond (a thousandth of it).  An undefined
\* byte count gives NaN.
Bps(bytes, ms) == IF bytes < 0 THEN Rat(0, 0) ELSE Rat(bytes * 8, ms)

\* The first unused slot of the call table: the next call's promise.
NextCall(w) ==
  IF \E k \in Calls : w.call[k].kind = "none"
  THEN CHOOSE k \in Calls : w.call[k].kind = "none" /\ \A j \in 1..(k - 1) : w.call[j].kind # "none"
  ELSE Null

\* A call of an async test method: it returns a new, pending promise.
NewCall(w, k, kind, parent, o) ==
  [w EXCEPT !.call[k] = [NoCall EXCEPT !.kind = kind, !.pc = "await", !.promise = "pending",
                                       !.parent = parent, !.onProgress = o.onProgress,
                                       !.onError = o.onError, !.size = o.size]]

\* options.onProgress / options.onError as the driver stores them: the function of
\* call k (for a sub-test of runFullTest the onError is the runFullTest caller's).
OnProgressOf(w, k) == IF w.call[k].onProgress THEN k ELSE Null
OnErrorOf(w, k) ==
  IF ~w.call[k].onError THEN Null
  ELSE IF w.call[k].parent # Null THEN w.call[k].parent ELSE k

\* ======================================================================
\* SpeedTestWebSocketSdkNew.js
\* ======================================================================

\* connect(), called by test call k.  Already connected: the promise is resolved and
\* the caller continues in a microtask.  Otherwise a new WebSocket is created.
New_connect(w, k) ==
  IF w.isConnected
  THEN [w EXCEPT !.micro = Append(@, Micro("resume", k, Null, TRUE, "", "none"))]
  ELSE LET s == FreeSocket(w) IN
       IF s = Null THEN [w EXCEPT !.ovf = TRUE]
       ELSE [w EXCEPT !.ws = s,
                      !.sock[s] = [NoSock EXCEPT !.state = "connecting",
                                                !.connectP = "pending", !.waiter = k],
                      !.fx.opened = @ + 1]

\* ws.onopen
New_onopen(w, s) ==
  LET w1 == [w EXCEPT !.isConnected = TRUE] IN
  IF w1.sock[s].connectP = "pending"
  THEN [w1 EXCEPT !.sock[s].connectP = "resolved",
                  !.micro = Append(@, Micro("resume", w.sock[s].waiter, Null, TRUE, "", "none"))]
  ELSE w1

\* ws.onclose
New_onclose(w, s) == [w EXCEPT !.isConnected = FALSE]

\* ws.onerror
New_onerror(w, s) ==
  LET w1 == ErrorCb([w EXCEPT !.isConnected = FALSE], "WebSocket connection failed") IN
  IF w1.sock[s].connectP = "pending"
  THEN [w1 EXCEPT !.sock[s].connectP = "rejected",
                  !.micro = Append(@, Micro("resume", w.sock[s].waiter, Null, FALSE, "WebSocket connection failed", "none"))]
  ELSE w1

\* disconnect()
New_disconnect(w) ==
  LET w1 == IF w.ws # Null THEN [WsClose(w, w.ws) EXCEPT !.ws = Null] ELSE w IN
  [w1 EXCEPT !.isConnected = FALSE, !.testInProgress = FALSE]

\* sendMessage(message): whether it returns true, and what it does then.
New_sendMessageOk(w) ==
  w.isConnected /\ w.ws # Null /\ w.sock[w.ws].state = "open"

New_sendMessage(w, frame) ==
  IF New_sendMessageOk(w) THEN WsSend(w, w.ws, frame) ELSE w

\* The completionHandler closure that test call k installs, applied to result.
New_completionHandler(w, k, result) ==
  LET w1 == [w EXCEPT !.testInProgress = FALSE,
                      !.fx.completion = Append(@, [k |-> k, f |-> result.f])]
      want == CASE w.call[k].kind = "ping" -> "pingTime"
                [] w.call[k].kind = "download" -> "downloadSpeed"
                [] OTHER -> "uploadSpeed"
  IN IF result.f = want
     THEN Settle(w1, k, "resolved", "", result)
     ELSE Settle(w1, k, "rejected",
                 CASE w.call[k].kind = "ping" -> "Invalid ping response"
                   [] w.call[k].kind = "download" -> "Invalid download response"
                   [] OTHER -> "Invalid upload response", NoVal)

\* this.completionHandler(result), when set
New_complete(w, result) ==
  IF w.completionHandler = Null THEN w
  ELSE New_completionHandler(w, w.completionHandler, result)

\* handleBinaryMessage(data)
New_handleBinaryMessage(w, size) ==
  LET w1 == [w EXCEPT !.receivedBytes = @ + size] IN
  IF w1.progressHandler # Null /\ w1.totalBytes > 0
  THEN Progress(w1, RatMin(Rat(w1.receivedBytes * 100, w1.totalBytes), Rat(100, 1)))
  ELSE w1

\* handlePong(message)
New_handlePong(w, m) ==
  New_complete(w, Result("pingTime", w.now - w.pingStartTime, 1))

\* handleDownloadStart(message)
New_handleDownloadStart(w, m) ==
  Progress([w EXCEPT !.downloadStartTime = w.now, !.receivedBytes = 0, !.totalBytes = m.val],
           Rat(0, 1))

\* handleDownloadProgress(message), handleUploadProgress(message)
New_handleDownloadProgress(w, m) == Progress(w, RatMin(Rat(m.val, 1), Rat(100, 1)))

New_handleUploadProgress(w, m) == Progress(w, RatMin(Rat(m.val, 1), Rat(100, 1)))

\* handleDownloadComplete(message)
New_handleDownloadComplete(w, m) ==
  LET ms == w.now - w.downloadStartTime
      totalBytes == IF m.totalBytes # 0 THEN m.totalBytes ELSE w.receivedBytes
      bps == IF ms > 0 THEN Bps(totalBytes, ms) ELSE Rat(0, 1)
  IN New_complete(w, Result("downloadSpeed", bps.n, bps.d))

\* sendUploadData(): numChunks = Math.ceil(totalSize / chunkSize)
New_numChunks == (NEW_TOTAL_SIZE + NEW_CHUNK_SIZE - 1) \div NEW_CHUNK_SIZE

\* The sendNextChunk closure of sendUploadData, for the chain ch = [id, req, idx]
\* (req: the request the chunks were generated for).  this.ws.send() throws when
\* this.ws is null or still CONNECTING.
New_sendNextChunk(w, ch) ==
  IF ch.idx >= New_numChunks \/ ~w.isConnected THEN w
  ELSE IF SendThrows(w, w.ws) THEN [w EXCEPT !.thrown = TRUE]
  ELSE LET w1 == WsSend(w, w.ws, Frame("binary", ch.req, NEW_CHUNK_SIZE))
       IN IF ch.idx + 1 < New_numChunks
          THEN [w1 EXCEPT !.timers = @ \cup {[t |-> "chunk", id |-> ch.id, req |-> ch.req,
                                              idx |-> ch.idx + 1, s |-> Null]}]
          ELSE w1

\* sendUploadData(): the chunks are generated, the first one is sent at once.
New_sendUploadData(w) ==
  IF w.nchains >= w.maxChains THEN [w EXCEPT !.ovf = TRUE]
  ELSE New_sendNextChunk([w EXCEPT !.nchains = @ + 1],
                         [id |-> w.nchains + 1, req |-> w.currentRequestId, idx |-> 0])

\* handleUploadReady(message)
New_handleUploadReady(w, m) ==
  New_sendUploadData(Progress([w EXCEPT !.uploadStartTime = w.now, !.uploadedBytes = 0],
                              Rat(0, 1)))

\* handleUploadResult(message): message.totalBytes is not a field of upload_result
New_handleUploadResult(w, m) ==
  LET ms == w.now - w.uploadStartTime
      totalBytes == IF m.totalBytes # 0 THEN m.totalBytes ELSE w.uploadedBytes
      bps == IF ms > 0 THEN Bps(totalBytes, ms) ELSE Rat(0, 1)
  IN New_complete(w, Result("uploadSpeed", bps.n, bps.d))

\* handleError(message)
New_handleError(w, m) == ErrorCb(w, "server error")

\* handleMessage(event): an exception of a handler is caught and reported.
New_handleMessage(w, m) ==
  CASE m.type = "binary" -> New_handleBinaryMessage(w, m.val)
    [] m.type = "malformed" -> ErrorCb(w, "Message parsing failed")
    [] m.type = "pong" -> New_handlePong(w, m)
    [] m.type = "download_start" -> New_handleDownloadStart(w, m)
    [] m.type = "download_progress" -> New_handleDownloadProgress(w, m)
    [] m.type = "download_complete" -> New_handleDownloadComplete(w, m)
    [] m.type = "upload_ready" ->
         LET w1 == New_handleUploadReady(w, m) IN
         IF w1.thrown
         THEN ErrorCb([w1 EXCEPT !.thrown = FALSE], "Message parsing failed")
         ELSE w1
    [] m.type = "upload_progress" -> New_handleUploadProgress(w, m)
    [] m.type = "upload_result" -> New_handleUploadResult(w, m)
    [] m.type = "error" -> New_handleError(w, m)
    [] OTHER -> w      \* connected, upload_complete_ack, unknown types

\* The request frame of a test of the given kind.
New_request(w, k) ==
  Frame(w.call[k].kind, k,
        IF w.call[k].kind = "ping" THEN 0
        ELSE IF w.call[k].size # 0 THEN w.call[k].size ELSE NEW_TOTAL_SIZE)

\* testPing / testDownloadSpeed / testUploadSpeed after "await this.connect()":
\* the promise executor (ok) or the catch block (~ok).
New_resume(w, k, ok, err) ==
  IF ~ok
  THEN Settle([w EXCEPT !.testInProgress = FALSE, !.call[k].pc = "end"], k, "rejected", err, NoVal)
  ELSE LET w1 == [w EXCEPT !.completionHandler = k, !.call[k].pc = "run",
                           !.pingStartTime = IF w.call[k].kind = "ping" THEN w.now ELSE @,
                           !.currentRequestId = k]
       IN IF New_sendMessageOk(w1)
          THEN New_sendMessage(w1, New_request(w1, k))
          ELSE Settle([w1 EXCEPT !.testInProgress = FALSE], k, "rejected",
                      CASE w.call[k].kind = "ping" -> "Failed to send ping request"
                        [] w.call[k].kind = "download" -> "Failed to send download request"
                        [] OTHER -> "Failed to send upload request", NoVal)

\* The body shared by testPing, testDownloadSpeed and testUploadSpeed, up to the await.
New_test(w, kind, parent, o) ==
  IF w.testInProgress THEN Throw(w, parent, "A test is already in progress")
  ELSE LET k == NextCall(w) w0 == NewCall(w, k, kind, parent, o) IN
       IF k = Null THEN [w EXCEPT !.ovf = TRUE]
       ELSE New_connect([w0 EXCEPT !.testInProgress = TRUE,
                                   !.progressHandler = OnProgressOf(w0, k),
                                   !.errorHandler = OnErrorOf(w0, k)], k)

New_testPing(w, o) == New_test(w, "ping", Null, o)

New_testDownloadSpeed(w, o) == New_test(w, "download", Null, o)

New_testUploadSpeed(w, o) == New_test(w, "upload", Null, o)

\* ======================================================================
\* SpeedTestWebSocketSdk.js
\* ======================================================================

\* The completionHandler closure that test call k installs, applied to result.
Sdk_completionHandler(w, k, result) ==
  LET w1 == [w EXCEPT !.testInProgress = FALSE,
                      !.fx.completion = Append(@, [k |-> k, f |-> result.f])]
      want == CASE w.call[k].kind = "ping" -> "pingTime"
                [] w.call[k].kind = "download" -> "downloadSpeed"
                [] w.call[k].kind = "upload" -> "uploadSpeed"
                [] OTHER -> result.f         \* runFullTest resolves with whatever came
  IN IF result.f = "error" THEN Settle(w1, k, "rejected", result.err, NoVal)
     ELSE IF result.f = want THEN Settle(w1, k, "resolved", "", result)
     ELSE Settle(w1, k, "rejected", "Invalid response", NoVal)

\* this.completionHandler(result), when set
Sdk_complete(w, result) ==
  IF w.completionHandler = Null THEN w
  ELSE Sdk_completionHandler(w, w.completionHandler, result)

\* connectWebSocket(), called by test call k
Sdk_connectWebSocket(w, k) ==
  IF w.isConnected /\ w.ws # Null
  THEN [w EXCEPT !.micro = Append(@, Micro("resume", k, Null, TRUE, "", "none"))]
  ELSE LET s == FreeSocket(w) IN
       IF s = Null THEN [w EXCEPT !.ovf = TRUE]
       ELSE [w EXCEPT !.ws = s,
                      !.sock[s] = [NoSock EXCEPT !.state = "connecting",
                                                !.connectP = "pending", !.waiter = k],
                      !.timers = @ \cup {[t |-> "connectTimeout", id |-> Null, req |-> Null,
                                          idx |-> 0, s |-> s]},
                      !.fx.opened = @ + 1]

\* The 5000 ms timer of socket s only rejects the promise connectWebSocket returned:
\* once that promise is settled the timer has no effect, and it is left out.
Sdk_timeoutMoot(w, s) == [w EXCEPT !.timers = {tm \in @ : ~(tm.t = "connectTimeout" /\ tm.s = s)}]

\* reject(error) of the promise connectWebSocket returned for socket s
Sdk_rejectConnect(w, s, err) ==
  IF w.sock[s].connectP = "pending"
  THEN [Sdk_timeoutMoot(w, s) EXCEPT !.sock[s].connectP = "rejected",
                 !.micro = Append(@, Micro("resume", w.sock[s].waiter, Null, FALSE, err, "none"))]
  ELSE w

\* webSocket.onopen
Sdk_onopen(w, s) ==
  LET w1 == [w EXCEPT !.isConnected = TRUE] IN
  IF w1.sock[s].connectP = "pending"
  THEN [Sdk_timeoutMoot(w1, s) EXCEPT !.sock[s].connectP = "resolved",
                  !.micro = Append(@, Micro("resume", w.sock[s].waiter, Null, TRUE, "", "none"))]
  ELSE w1

\* webSocket.onclose
Sdk_onclose(w, s) ==
  LET w1 == [w EXCEPT !.isConnected = FALSE] IN
  IF w1.testInProgress /\ w1.completionHandler # Null
  THEN Sdk_complete(w1, ErrResult("Connection closed"))
  ELSE w1

\* webSocket.onerror
Sdk_onerror(w, s) ==
  IF ~w.isConnected THEN Sdk_rejectConnect(w, s, "Connection failed")
  ELSE IF w.testInProgress /\ w.completionHandler # Null
       THEN Sdk_complete(w, ErrResult("WebSocket error"))
       ELSE w

\* The 5000 ms timer connectWebSocket sets for socket s
Sdk_connectTimeout(w, s) ==
  IF ~w.isConnected THEN Sdk_rejectConnect(w, s, "Connection timeout") ELSE w

\* disconnect()
Sdk_disconnect(w) ==
  IF w.ws # Null
  THEN [WsClose(w, w.ws) EXCEPT !.ws = Null, !.isConnected = FALSE]
  ELSE w

\* sendMessage(message) and sendData(data)
Sdk_sendMessage(w, frame) ==
  IF ~w.isConnected \/ w.ws = Null THEN Sdk_complete(w, ErrResult("Not connected"))
  ELSE IF SendThrows(w, w.ws) THEN Sdk_complete(w, ErrResult("Failed to send message"))
  ELSE WsSend(w, w.ws, frame)

Sdk_sendData(w, frame) ==
  IF ~w.isConnected \/ w.ws = Null THEN Sdk_complete(w, ErrResult("Not connected"))
  ELSE IF SendThrows(w, w.ws) THEN Sdk_complete(w, ErrResult("Failed to send data"))
  ELSE WsSend(w, w.ws, frame)

\* handleBinaryMessage(data)
Sdk_handleBinaryMessage(w, size) ==
  LET w1 == [w EXCEPT !.receivedBytes = @ + size] IN
  IF w1.totalBytes > 0 /\ w1.progressHandler # Null
  THEN Progress(w1, Rat(w1.receivedBytes * 100, w1.totalBytes))
  ELSE w1

Sdk_handleConnected(w, m) == [w EXCEPT !.isConnected = TRUE]

Sdk_handlePong(w, m) == Sdk_complete(w, Result("pingTime", w.now - w.pingStartTime, 1))

Sdk_handleDownloadStart(w, m) ==
  [w EXCEPT !.downloadStartTime = w.now, !.totalBytes = m.val, !.receivedBytes = 0]

Sdk_handleDownloadProgress(w, m) ==
  IF w.progressHandler # Null /\ m.val # 0 THEN Progress(w, Rat(m.val, 1)) ELSE w

\* handleDownloadComplete(message): the division is not guarded
Sdk_handleDownloadComplete(w, m) ==
  LET ms == w.now - w.downloadStartTime
      totalBytes == IF m.totalBytes # 0 THEN m.totalBytes ELSE w.receivedBytes
      bps == Bps(totalBytes, ms)
  IN Sdk_complete(w, Result("downloadSpeed", bps.n, bps.d))

\* sendUploadData(): ten timers at i * 200 ms; they fire in the order of i.
Sdk_sendUploadData(w) ==
  IF w.nchains >= w.maxChains THEN [w EXCEPT !.ovf = TRUE]
  ELSE [w EXCEPT !.nchains = @ + 1,
                 !.timers = @ \cup {[t |-> "sdkChunk", id |-> w.nchains + 1,
                                     req |-> w.currentRequestId, idx |-> 0, s |-> Null]}]

\* The callback of timer i of the chain ch (the next timer of the chain stays pending).
Sdk_uploadTimer(w, ch) ==
  LET rest == IF ch.idx + 1 < SDK_CHUNKS
              THEN [w EXCEPT !.timers = @ \cup {[ch EXCEPT !.idx = @ + 1]}]
              ELSE w
  IN IF ~rest.isConnected THEN rest
     ELSE LET w1 == Sdk_sendData(rest, Frame("binary", ch.req, SDK_CHUNK_SIZE))
              w2 == Progress(w1, Rat((ch.idx + 1) * 100, SDK_CHUNKS))
          IN IF ch.idx = SDK_CHUNKS - 1
             THEN [w2 EXCEPT !.timers = @ \cup {[ch EXCEPT !.t = "sdkFinal"]}]
             ELSE w2

\* The 100 ms timer set after the last chunk
Sdk_uploadFinalTimer(w, ch) ==
  Sdk_sendMessage(w, Frame("upload_complete", w.currentRequestId, 0))

Sdk_handleUploadReady(w, m) == Sdk_sendUploadData([w EXCEPT !.uploadStartTime = w.now])

Sdk_handleUploadProgress(w, m) ==
  IF w.progressHandler # Null /\ m.val # 0 THEN Progress(w, Rat(m.val, 1)) ELSE w

Sdk_handleUploadResult(w, m) ==
  IF w.completionHandler # Null /\ m.val # 0
  THEN Sdk_complete(w, Result("uploadSpeed", m.val, 1))
  ELSE w

Sdk_handleError(w, m) == Sdk_complete(w, ErrResult("server error"))

\* this.messageHandlers[messageType](message)
Sdk_messageHandlers(w, m) ==
  CASE m.type = "connected" -> Sdk_handleConnected(w, m)
    [] m.type = "pong" -> Sdk_handlePong(w, m)
    [] m.type = "download_start" -> Sdk_handleDownloadStart(w, m)
    [] m.type = "download_progress" -> Sdk_handleDownloadProgress(w, m)
    [] m.type = "download_complete" -> Sdk_handleDownloadComplete(w, m)
    [] m.type = "upload_ready" -> Sdk_handleUploadReady(w, m)
    [] m.type = "upload_progress" -> Sdk_handleUploadProgress(w, m)
    [] m.type = "upload_result" -> Sdk_handleUploadResult(w, m)
    [] m.type = "error" -> Sdk_handleError(w, m)
    [] OTHER -> w

\* handleMessage without the comparison of request ids (a faulty variant, which the
\* property C5_StaleDiscarded tells apart from Sdk_handleMessage).
Sdk_handleMessageUnchecked(w, m) ==
  IF m.type = "binary" THEN Sdk_handleBinaryMessage(w, m.val)
  ELSE IF m.type = "malformed" THEN w
  ELSE Sdk_messageHandlers(w, m)

\* handleMessage(event)
Sdk_handleMessage(w, m) ==
  IF m.type = "binary" THEN Sdk_handleBinaryMessage(w, m.val)
  ELSE IF m.type = "malformed" THEN w
  ELSE IF Truthy(w.currentRequestId) /\ Truthy(m.requestId)
          /\ w.currentRequestId # m.requestId
       THEN w
       ELSE Sdk_messageHandlers(w, m)

\* The request frame test call k sends; it carries this.currentRequestId.
Sdk_request(w, k) ==
  Frame(IF w.call[k].kind = "full" THEN "full_test" ELSE w.call[k].kind, w.currentRequestId, 0)

\* A test method after "await this.connectWebSocket()": the promise executor (ok)
\* or the catch block (~ok).
Sdk_resume(w, k, ok, err) ==
  IF ~ok
  THEN Settle([w EXCEPT !.testInProgress = FALSE, !.call[k].pc = "end"], k, "rejected", err, NoVal)
  ELSE Sdk_sendMessage([w EXCEPT !.completionHandler = k, !.call[k].pc = "run"], Sdk_request(w, k))

\* A test method that lacks the testInProgress check (a faulty variant, which the
\* property C1_SecondCallFailsFast tells apart from Sdk_test).
Sdk_testUnguarded(w, kind, o) ==
  LET k == NextCall(w) w0 == NewCall(w, k, kind, Null, o) IN
  IF k = Null THEN [w EXCEPT !.ovf = TRUE]
  ELSE Sdk_connectWebSocket(
         [w0 EXCEPT !.testInProgress = TRUE,
                    !.pingStartTime = IF kind = "ping" THEN w.now ELSE @,
                    !.downloadStartTime = IF kind = "download" THEN w.now ELSE @,
                    !.uploadStartTime = IF kind = "upload" THEN w.now ELSE @,
                    !.currentRequestId = k,
                    !.progressHandler = IF kind = "ping" THEN @ ELSE OnProgressOf(w0, k)],
         k)

\* The body shared by testPing, testDownloadSpeed, testUploadSpeed and runFullTest,
\* up to the await.  generateRequestId() returns a fresh, non-empty id: the call's
\* number (Math.random() returning exactly 0, which gives "", is left out).
Sdk_test(w, kind, o) ==
  IF w.testInProgress THEN Throw(w, Null, "A test is already in progress")
  ELSE LET k == NextCall(w) w0 == NewCall(w, k, kind, Null, o) IN
       IF k = Null THEN [w EXCEPT !.ovf = TRUE]
       ELSE Sdk_connectWebSocket(
              [w0 EXCEPT !.testInProgress = TRUE,
                         !.pingStartTime = IF kind = "ping" THEN w.now ELSE @,
                         !.downloadStartTime = IF kind = "download" THEN w.now ELSE @,
                         !.uploadStartTime = IF kind = "upload" THEN w.now ELSE @,
                         !.currentRequestId = k,
                         !.progressHandler = IF kind = "ping" THEN @ ELSE OnProgressOf(w0, k)],
              k)

Sdk_testPing(w, o) == Sdk_test(w, "ping", o)

Sdk_testDownloadSpeed(w, o) == Sdk_test(w, "download", o)

Sdk_testUploadSpeed(w, o) == Sdk_test(w, "upload", o)

Sdk_runFullTest(w, o) == Sdk_test(w, "full", o)

\* ---------------------------------------------- SdkNew.runFullTest and microtasks

\* options.onProgress(v) of the runFullTest call k, when given
UserProgress(w, k, v) ==
  IF w.call[k].onProgress THEN [w EXCEPT !.fx.progress = Append(@, [k |-> k, v |-> v])] ELSE w

\* A sub-test of runFullTest call k: testPing / testDownloadSpeed / testUploadSpeed
\* with the options runFullTest passes.
New_subTest(w, k, kind) ==
  New_test([w EXCEPT !.call[k].pc = kind], kind, k,
           [onProgress |-> kind # "ping", onError |-> w.call[k].onError,
            size |-> w.call[k].size])

\* runFullTest(options) up to its first await
New_runFullTest(w, o) ==
  IF w.testInProgress THEN Throw(w, Null, "A test is already in progress")
  ELSE LET k == NextCall(w) w0 == NewCall(w, k, "full", Null, o) IN
       IF k = Null THEN [w EXCEPT !.ovf = TRUE]
       ELSE New_subTest(UserProgress(w0, k, Rat(0, 1)), k, "ping")

\* A runFullTest without its try/catch discipline: the continuation goes on to the
\* next sub-test whether the awaited one was resolved or rejected.
New_runFullTestResumeAlways(w, k, j) ==
  LET w1 == [w EXCEPT !.call[k].results = @ \cup {j.f}] IN
  CASE j.sub # Null /\ w.call[j.sub].kind = "ping" ->
         New_subTest(UserProgress(w1, k, Rat(33, 1)), k, "download")
    [] j.sub # Null /\ w.call[j.sub].kind = "download" ->
         New_subTest(UserProgress(w1, k, Rat(66, 1)), k, "upload")
    [] OTHER -> Settle([UserProgress(w1, k, Rat(100, 1)) EXCEPT !.call[k].pc = "end"],
                       k, "resolved", "", Result("full", 0, 1))

\* runFullTest call k after the await of a sub-test: the continuation j
New_runFullTestResume(w, k, j) ==
  IF ~j.ok
  THEN LET w1 == IF w.call[k].onError
                 THEN [w EXCEPT !.fx.errors = Append(@, [k |-> k, msg |-> j.err])]
                 ELSE w
       IN Settle([w1 EXCEPT !.call[k].pc = "end"], k, "rejected", j.err, NoVal)
  ELSE LET w1 == [w EXCEPT !.call[k].results = @ \cup {j.f}] IN
       CASE w.call[j.sub].kind = "ping" ->
              New_subTest(UserProgress(w1, k, Rat(33, 1)), k, "download")
         [] w.call[j.sub].kind = "download" ->
              New_subTest(UserProgress(w1, k, Rat(66, 1)), k, "upload")
         [] OTHER -> Settle([UserProgress(w1, k, Rat(100, 1)) EXCEPT !.call[k].pc = "end"],
                            k, "resolved", "", Result("full", 0, 1))

\* One promise continuation.
RunMicro(w, j) ==
  IF j.t = "full" THEN New_runFullTestResume(w, j.k, j)
  ELSE IF w.cls = "New" THEN New_resume(w, j.k, j.ok, j.err)
  ELSE Sdk_resume(w, j.k, j.ok, j.err)

\* The microtask queue is run until it is empty.
RECURSIVE Drain(_)
Drain(w) ==
  IF w.micro = <<>> \/ w.ovf THEN w
  ELSE Drain(RunMicro([w EXCEPT !.micro = Tail(@)], Head(w.micro)))

\* ======================================================================
\* websocket-server.js: the test controller, one connection
\* ======================================================================
Downloads == 1..MaxDownloads

\* ws.uploadTracker (bytesReceived is kept equal to receivedBytes, and is left out).
\* chunksReceived and totalChunks are the fields of the tracker of the chunk-count
\* server, which has no totalSize and no lastProgressUpdate.
NoTracker == [set |-> FALSE, startTime |-> 0, receivedBytes |-> 0, totalSize |-> 0,
              lastProgressUpdate |-> 0, requestId |-> Null,
              chunksReceived |-> 0, totalChunks |-> 0]

\* The variables one handleDownload call closes over, and where its chain stands:
\* "sending" (the callback of ws.send is due), "refused" (the same, for a frame sent
\* on a connection that was not open), "timer" (setTimeout(sendNextChunk, 0)
\* is due), "done" (download_complete was sent), "failed" (ws.send reported an error).
NoDownload == [pc |-> "idle", chunkSize |-> 0, chunks |-> 0, sentChunks |-> 0,
               sentBytes |-> 0, requestId |-> Null]

\* A frame the server sends. d is the handleDownload call that sent it (0: none).
SrvMsg == [type |-> "", requestId |-> Null, message |-> "", timestamp |-> Null,
           totalChunks |-> 0, chunkSize |-> 0, totalSize |-> 0, totalBytes |-> 0,
           chunk |-> 0, bytesSent |-> 0, progress |-> Rat(0, 1), bytesReceived |-> 0,
           duration |-> 0, bitsPerSecond |-> Rat(0, 1), len |-> 0, d |-> 0]

\* The state a server handler works on, and the frames it has sent so far (out).
SrvWorld == [readyState |-> srvWs.readyState, onmessage |-> srvWs.onmessage,
             uploadTracker |-> srvWs.uploadTracker, textIsBuffer |-> srvWs.textIsBuffer,
             downloads |-> downloads, now |-> srvNow, auth |-> ENABLE_AUTH,
             out |-> <<>>]

\* JSON.stringify of a number: Infinity and NaN are written as null (here d = 0 with
\* n = -1), every other number as itself.
JsonNumber(r) == IF r.d = 0 THEN [n |-> -1, d |-> 0] ELSE r

\* ws.send(JSON.stringify(frame)): a frame sent on a connection that is not open goes
\* nowhere.
Srv_send(w, frame) ==
  IF w.readyState = "open"
  THEN [w EXCEPT !.out = Append(@, [frame EXCEPT !.progress = JsonNumber(@),
                                                 !.bitsPerSecond = JsonNumber(@)])]
  ELSE w

\* ---- the URL of the connection.  A URL is the text after the host, as a sequence of
\* characters; the name token and an escape such as %26 count as one character each.
\* encodeURIComponent(s): the reserved characters are escaped
EncodeURIComponent(s) ==
  [i \in 1..Len(s) |-> CASE s[i] = "&" -> "%26" [] s[i] = "=" -> "%3D" [] OTHER -> s[i]]

\* What the URL parser makes of an escaped value
DecodeURIComponent(s) ==
  [i \in 1..Len(s) |-> CASE s[i] = "%26" -> "&" [] s[i] = "%3D" -> "=" [] OTHER -> s[i]]

\* The URL SpeedTestWebSocketSdk.connectWebSocket opens (authToken <<>>: none)
Sdk_url(serverUrl, authToken) ==
  IF authToken # <<>>
  THEN LET separator == IF \E i \in 1..Len(serverUrl) : serverUrl[i] = "?" THEN "&" ELSE "?"
       IN serverUrl \o <<separator, "token", "=">> \o EncodeURIComponent(authToken)
  ELSE serverUrl

\* The URL SpeedTestWebSocketSdkNew.connect opens: this.serverUrl as it is
New_url(serverUrl, authToken) == serverUrl

\* Where the first parameter named token starts in the URL: the index of its name,
\* right after a '?' or '&' and right before a '=' (0: there is none).
Srv_tokenAt(url) ==
  LET at == {i \in 2..(Len(url) - 1) :
               /\ url[i] = "token" /\ url[i + 1] = "=" /\ url[i - 1] \in {"?", "&"}
               /\ \E j \in 1..(i - 1) : url[j] = "?"}
  IN IF at = {} THEN 0 ELSE CHOOSE i \in at : \A j \in at : i <= j

\* url.searchParams.get('token'): the value of the first parameter named token, up to
\* the next '&', decoded.  present = FALSE: get returns null.
Srv_searchParamsToken(url) ==
  LET i == Srv_tokenAt(url) IN
  IF i = 0 THEN [present |-> FALSE, val |-> <<>>]
  ELSE LET stop == {j \in (i + 2)..Len(url) : url[j] = "&"}
           end == IF stop = {} THEN Len(url) ELSE (CHOOSE j \in stop : \A k \in stop : j <= k) - 1
       IN [present |-> TRUE, val |-> DecodeURIComponent(SubSeq(url, i + 2, end))]

\* The token as the connection handler tests it: null, "" or a non-empty string
Srv_tokenArg(tok) == IF ~tok.present THEN Null ELSE IF tok.val = <<>> THEN EmptyId ELSE 1

\* validateToken(token): any non-empty token
Srv_validateToken(w, token) ==
  IF ~w.auth THEN TRUE ELSE token # Null /\ token # EmptyId

\* A connection handler that goes on after a failed check: it registers the message
\* handler all the same (a faulty variant, which the property C12_NoTokenRejected tells
\* apart from Srv_connection).
Srv_connectionNoReturn(w, token) ==
  LET w1 == [w EXCEPT !.readyState = "open", !.onmessage = TRUE] IN
  IF w.auth /\ (~Truthy(token) \/ ~Srv_validateToken(w, token))
  THEN [Srv_send(w1, [SrvMsg EXCEPT !.type = "error", !.message = "Authentication failed"])
          EXCEPT !.readyState = "closing"]
  ELSE Srv_send(w1, [SrvMsg EXCEPT !.type = "connected"])

\* wss.on('connection'): token is the token parameter of the URL (Null: none, EmptyId: "").
\* After ws.close() the connection is "closing" until the client has closed its end;
\* onmessage: ws.on('message', ...) was reached.
Srv_connection(w, token) ==
  LET w1 == [w EXCEPT !.readyState = "open"] IN
  IF w.auth /\ (~Truthy(token) \/ ~Srv_validateToken(w, token))
  THEN [Srv_send(w1, [SrvMsg EXCEPT !.type = "error", !.message = "Authentication failed"])
          EXCEPT !.readyState = "closing"]
  ELSE [Srv_send(w1, [SrvMsg EXCEPT !.type = "connected"]) EXCEPT !.onmessage = TRUE]

\* Math.ceil(n / d), d # 0
Srv_ceil(n, d) ==
  LET a == IF d < 0 THEN -n ELSE n
      b == IF d < 0 THEN -d ELSE d
  IN IF a % b = 0 THEN a \div b ELSE (a \div b) + 1

Srv_min(a, b) == IF a <= b THEN a ELSE b

\* handlePing(ws, msg)
Srv_handlePing(w, msg) ==
  Srv_send(w, [SrvMsg EXCEPT !.type = "pong", !.timestamp = w.now, !.requestId = msg.requestId])

\* A sendNextChunk that takes the download for complete one chunk early (a faulty
\* variant, which the property C26_DownloadFrameOrder tells apart from
\* Srv_sendNextChunk).
Srv_sendNextChunkShort(w, d) ==
  LET c == w.downloads[d] IN
  IF c.sentChunks + 1 >= c.chunks
  THEN [Srv_send(w, [SrvMsg EXCEPT !.type = "download_complete", !.totalBytes = c.sentBytes,
                                   !.timestamp = w.now, !.requestId = c.requestId, !.d = d])
          EXCEPT !.downloads[d].pc = "done"]
  ELSE LET start == c.sentChunks * c.chunkSize
           end == Srv_min(start + c.chunkSize, TEST_FILE_SIZE)
       IN [Srv_send(w, [SrvMsg EXCEPT !.type = "binary", !.len = end - start, !.d = d])
             EXCEPT !.downloads[d].pc = IF w.readyState = "open" THEN "sending" ELSE "refused"]

\* A sendNextChunk that sends two chunks before it returns to the event loop (a faulty
\* variant, which the property C28_PingAnsweredDuringDownload tells apart from
\* Srv_sendNextChunk).
Srv_sendNextChunkTwice(w, d) ==
  LET c == w.downloads[d] IN
  IF c.sentChunks >= c.chunks
  THEN [Srv_send(w, [SrvMsg EXCEPT !.type = "download_complete", !.totalBytes = c.sentBytes,
                                   !.timestamp = w.now, !.requestId = c.requestId, !.d = d])
          EXCEPT !.downloads[d].pc = "done"]
  ELSE LET start == c.sentChunks * c.chunkSize
           end == Srv_min(start + c.chunkSize, TEST_FILE_SIZE)
           frame == [SrvMsg EXCEPT !.type = "binary", !.len = end - start, !.d = d]
       IN [Srv_send(Srv_send(w, frame), frame)
             EXCEPT !.downloads[d].pc = IF w.readyState = "open" THEN "sending" ELSE "refused"]

\* sendNextChunk() of the handleDownload call d
Srv_sendNextChunk(w, d) ==
  LET c == w.downloads[d] IN
  IF c.sentChunks >= c.chunks
  THEN [Srv_send(w, [SrvMsg EXCEPT !.type = "download_complete", !.totalBytes = c.sentBytes,
                                   !.timestamp = w.now, !.requestId = c.requestId, !.d = d])
          EXCEPT !.downloads[d].pc = "done"]
  ELSE LET start == c.sentChunks * c.chunkSize
           end == Srv_min(start + c.chunkSize, TEST_FILE_SIZE)
       IN [Srv_send(w, [SrvMsg EXCEPT !.type = "binary", !.len = end - start, !.d = d])
             EXCEPT !.downloads[d].pc = IF w.readyState = "open" THEN "sending" ELSE "refused"]

\* A callback that reports the progress before it counts the chunk (a faulty variant,
\* which the property C10_ProgressOrdered tells apart from Srv_chunkSent).
Srv_chunkSentEarly(w, d, err) ==
  LET c == w.downloads[d]
      start == c.sentChunks * c.chunkSize
      end == Srv_min(start + c.chunkSize, TEST_FILE_SIZE)
  IN IF err THEN [w EXCEPT !.downloads[d].pc = "failed"]
     ELSE [Srv_send(w, [SrvMsg EXCEPT !.type = "download_progress",
                                      !.chunk = c.sentChunks,
                                      !.totalChunks = c.chunks,
                                      !.bytesSent = c.sentBytes,
                                      !.totalBytes = TEST_FILE_SIZE,
                                      !.progress = Rat(c.sentChunks * 100, c.chunks),
                                      !.requestId = c.requestId, !.d = d])
             EXCEPT !.downloads[d].sentBytes = @ + (end - start),
                    !.downloads[d].sentChunks = @ + 1,
                    !.downloads[d].pc = "timer"]

\* A callback that counts the chunk in counters that all downloads under way share (a
\* faulty variant, which the property C38_DownloadsKeepOwnCounters tells apart from
\* Srv_chunkSent).
Srv_chunkSentShared(w, d, err) ==
  LET c == w.downloads[d]
      start == c.sentChunks * c.chunkSize
      end == Srv_min(start + c.chunkSize, TEST_FILE_SIZE)
  IN IF err THEN [w EXCEPT !.downloads[d].pc = "failed"]
     ELSE LET w1 == [w EXCEPT !.downloads =
                       [e \in Downloads |->
                          IF e = d
                          THEN [@[e] EXCEPT !.sentBytes = @ + (end - start),
                                            !.sentChunks = @ + 1, !.pc = "timer"]
                          ELSE IF @[e].pc \in {"sending", "timer"}
                          THEN [@[e] EXCEPT !.sentBytes = @ + (end - start),
                                            !.sentChunks = @ + 1]
                          ELSE @[e]]]
              c1 == w1.downloads[d]
          IN Srv_send(w1, [SrvMsg EXCEPT !.type = "download_progress",
                                         !.chunk = c1.sentChunks,
                                         !.totalChunks = c1.chunks,
                                         !.bytesSent = c1.sentBytes,
                                         !.totalBytes = TEST_FILE_SIZE,
                                         !.progress = Rat(c1.sentChunks * 100, c1.chunks),
                                         !.requestId = c1.requestId, !.d = d])

\* The callback of ws.send(chunkData, { binary: true }, ...) in sendNextChunk
Srv_chunkSent(w, d, err) ==
  LET c == w.downloads[d]
      start == c.sentChunks * c.chunkSize
      end == Srv_min(start + c.chunkSize, TEST_FILE_SIZE)
  IN IF err THEN [w EXCEPT !.downloads[d].pc = "failed"]
     ELSE LET w1 == [w EXCEPT !.downloads[d].sentBytes = @ + (end - start),
                              !.downloads[d].sentChunks = @ + 1,
                              !.downloads[d].pc = "timer"]
              c1 == w1.downloads[d]
          IN Srv_send(w1, [SrvMsg EXCEPT !.type = "download_progress",
                                         !.chunk = c1.sentChunks,
                                         !.totalChunks = c1.chunks,
                                         !.bytesSent = c1.sentBytes,
                                         !.totalBytes = TEST_FILE_SIZE,
                                         !.progress = Rat(c1.sentChunks * 100, c1.chunks),
                                         !.requestId = c1.requestId, !.d = d])

\* A chunk count rounded down (a faulty variant, which the property
\* C9_DownloadChunking tells apart from Srv_chunks).
Srv_chunksFloor(chunkSize) == TEST_FILE_SIZE \div chunkSize

\* The number of chunks handleDownload works out for a chunk size
Srv_chunks(chunkSize) == Srv_ceil(TEST_FILE_SIZE, chunkSize)

\* The first unused closure slot
NextDownload(w) ==
  IF \E d \in Downloads : w.downloads[d].pc = "idle"
  THEN CHOOSE d \in Downloads : w.downloads[d].pc = "idle" /\
                                \A e \in 1..(d - 1) : w.downloads[e].pc # "idle"
  ELSE Null

\* handleDownload(ws, msg)
Srv_handleDownload(w, msg) ==
  LET d == NextDownload(w)
      chunkSize == IF msg.chunkSize = Null THEN DEFAULT_CHUNK_SIZE ELSE msg.chunkSize
      chunks == Srv_chunks(chunkSize)
      w1 == Srv_send(w, [SrvMsg EXCEPT !.type = "download_start", !.totalChunks = chunks,
                                    !.chunkSize = chunkSize, !.totalSize = TEST_FILE_SIZE,
                                    !.requestId = msg.requestId, !.d = d])
  IN Srv_sendNextChunk([w1 EXCEPT !.downloads[d] =
                          [NoDownload EXCEPT !.chunkSize = chunkSize, !.chunks = chunks,
                                             !.requestId = msg.requestId]], d)

\* A handleUploadChunk that leaves the tracker in place after the result (a faulty
\* variant, which the property C21_UploadResultOnce tells apart from
\* Srv_handleUploadChunk).
Srv_handleUploadChunkKeep(w, len) ==
  IF ~w.uploadTracker.set THEN w
  ELSE
    LET t == w.uploadTracker
        received == t.receivedBytes + len
        w1 == [w EXCEPT !.uploadTracker.receivedBytes = received]
    IN IF received >= t.totalSize
       THEN Srv_send(w1, [SrvMsg EXCEPT !.type = "upload_result",
                                        !.bytesReceived = received,
                                        !.duration = w.now - t.startTime,
                                        !.bitsPerSecond = Rat(received * 8, w.now - t.startTime),
                                        !.timestamp = w.now,
                                        !.requestId = t.requestId])
       ELSE w1

\* A handleUploadChunk that reports the progress on every chunk (a faulty variant,
\* which the property C27_UploadProgressThrottled tells apart from
\* Srv_handleUploadChunk).
Srv_handleUploadChunkEvery(w, len) ==
  IF ~w.uploadTracker.set THEN w
  ELSE
    LET t == w.uploadTracker
        received == t.receivedBytes + len
        progress == RatMin(Rat(received * 100, t.totalSize), Rat(100, 1))
        w2 == Srv_send([w EXCEPT !.uploadTracker.receivedBytes = received,
                                 !.uploadTracker.lastProgressUpdate =
                                    ((progress.n \div progress.d) \div 10) * 10],
                       [SrvMsg EXCEPT !.type = "upload_progress", !.progress = progress,
                                      !.requestId = t.requestId])
    IN IF received >= t.totalSize
       THEN [Srv_send(w2, [SrvMsg EXCEPT !.type = "upload_result",
                                         !.bytesReceived = received,
                                         !.duration = w.now - t.startTime,
                                         !.bitsPerSecond = Rat(received * 8, w.now - t.startTime),
                                         !.timestamp = w.now,
                                         !.requestId = t.requestId])
               EXCEPT !.uploadTracker = NoTracker]
       ELSE w2

\* handleUploadChunk(ws, data), data.length = len. The duration is kept in
\* milliseconds and bitsPerSecond in bits per millisecond.
Srv_handleUploadChunk(w, len) ==
  IF ~w.uploadTracker.set THEN w
  ELSE
    LET t == w.uploadTracker
        received == t.receivedBytes + len
        progress == RatMin(Rat(received * 100, t.totalSize), Rat(100, 1))
        update == RatLeq(Rat(t.lastProgressUpdate + 10, 1), progress) \/
                  RatLeq(Rat(100, 1), progress)
        w1 == [w EXCEPT !.uploadTracker.receivedBytes = received]
        w2 == IF update
              THEN Srv_send([w1 EXCEPT !.uploadTracker.lastProgressUpdate =
                                          ((progress.n \div progress.d) \div 10) * 10],
                            [SrvMsg EXCEPT !.type = "upload_progress", !.progress = progress,
                                           !.requestId = t.requestId])
              ELSE w1
    IN IF received >= t.totalSize
       THEN [Srv_send(w2, [SrvMsg EXCEPT !.type = "upload_result",
                                         !.bytesReceived = received,
                                         !.duration = w.now - t.startTime,
                                         !.bitsPerSecond = Rat(received * 8, w.now - t.startTime),
                                         !.timestamp = w.now,
                                         !.requestId = t.requestId])
               EXCEPT !.uploadTracker = NoTracker]
       ELSE w2

\* A handleUpload that keeps the byte counters and the progress bucket of a tracker
\* that is active (a faulty variant, which the property C39_UploadRequestReplacesTracker
\* tells apart from Srv_handleUpload).
Srv_handleUploadKeep(w, msg) ==
  Srv_send([w EXCEPT !.uploadTracker =
              [NoTracker EXCEPT !.set = TRUE, !.startTime = w.now,
                                !.totalSize = IF msg.size = Null THEN TEST_FILE_SIZE ELSE msg.size,
                                !.receivedBytes = w.uploadTracker.receivedBytes,
                                !.lastProgressUpdate = w.uploadTracker.lastProgressUpdate,
                                !.requestId = msg.requestId]],
           [SrvMsg EXCEPT !.type = "upload_ready", !.timestamp = w.now,
                          !.requestId = msg.requestId])

\* handleUpload(ws, msg)
Srv_handleUpload(w, msg) ==
  Srv_send([w EXCEPT !.uploadTracker =
              [NoTracker EXCEPT !.set = TRUE, !.startTime = w.now,
                                !.totalSize = IF msg.size = Null THEN TEST_FILE_SIZE ELSE msg.size,
                                !.requestId = msg.requestId]],
           [SrvMsg EXCEPT !.type = "upload_ready", !.timestamp = w.now,
                          !.requestId = msg.requestId])

\* handleFullTest(ws, msg)
Srv_handleFullTest(w, msg) ==
  Srv_handlePing(Srv_send(w, [SrvMsg EXCEPT !.type = "full_test_start", !.timestamp = w.now,
                                            !.requestId = msg.requestId]),
                 [type |-> "ping", requestId |-> msg.requestId])

\* A frame a client sends. braced: its text, trimmed, starts with '{' and ends with '}';
\* parses: JSON.parse takes it; pingText: it holds the text "type":"ping"; type,
\* requestId, chunkSize and size: the members of the parsed object (Null: none);
\* len: its length in bytes.
CliMsg == [binary |-> FALSE, braced |-> TRUE, parses |-> TRUE, pingText |-> FALSE,
           type |-> "", requestId |-> Null, chunkSize |-> Null, size |-> Null,
           totalChunks |-> Null, len |-> 0]

\* ws.on('message') once the frame is known to be JSON text: the ping short cut,
\* then the dispatch on msg.type
Srv_json(w, msg) ==
  IF msg.pingText
  THEN IF msg.parses
       THEN Srv_send(w, [SrvMsg EXCEPT !.type = "pong", !.timestamp = w.now,
                                       !.requestId = msg.requestId])
       ELSE w
  ELSE IF ~msg.parses
       THEN Srv_send(w, [SrvMsg EXCEPT !.type = "error", !.message = "Invalid message format"])
       ELSE CASE msg.type = "download" -> Srv_handleDownload(w, msg)
              [] msg.type = "upload" -> Srv_handleUpload(w, msg)
              [] msg.type = "upload_complete" ->
                   Srv_send(w, [SrvMsg EXCEPT !.type = "upload_complete_ack",
                                              !.requestId = msg.requestId,
                                              !.timestamp = w.now])
              [] msg.type = "full_test" -> Srv_handleFullTest(w, msg)
              [] OTHER -> Srv_send(w, [SrvMsg EXCEPT !.type = "error",
                                                     !.message = "Unknown command"])

\* ws.on('message', function incoming(message))
Srv_incoming(w, msg) ==
  IF msg.braced THEN Srv_json(w, msg) ELSE Srv_handleUploadChunk(w, msg.len)

\* A frame that arrives on the connection: the 'message' listener, when there is one
Srv_message(w, msg) == IF w.onmessage THEN Srv_incoming(w, msg) ELSE w

\* ======================================================================
\* src/unnamed/part_002: the chunk-count server.  Its connection handler, handlePing,
\* handleDownload and handleFullTest are those of websocket-server.js.
\* ======================================================================

\* handleUpload(ws, msg): totalChunks: msg.totalChunks || 0
P2_handleUpload(w, msg) ==
  Srv_send([w EXCEPT !.uploadTracker =
              [NoTracker EXCEPT !.set = TRUE, !.startTime = w.now,
                                !.totalChunks = IF msg.totalChunks = Null THEN 0
                                                ELSE msg.totalChunks,
                                !.requestId = msg.requestId]],
           [SrvMsg EXCEPT !.type = "upload_ready", !.timestamp = w.now,
                          !.requestId = msg.requestId])

\* handleUploadChunk(ws, data), data.length = len.  The progress is
\* Math.min(100, Math.floor(chunksReceived / totalChunks * 100)): 100 when totalChunks
\* is 0, since chunksReceived is positive.
P2_handleUploadChunk(w, len) ==
  IF ~w.uploadTracker.set THEN w
  ELSE
    LET t == w.uploadTracker
        received == t.receivedBytes + len
        chunks == t.chunksReceived + 1
        progress == IF t.totalChunks = 0 THEN 100
                    ELSE Srv_min(100, (chunks * 100) \div t.totalChunks)
        w1 == Srv_send([w EXCEPT !.uploadTracker.receivedBytes = received,
                                 !.uploadTracker.chunksReceived = chunks],
                       [SrvMsg EXCEPT !.type = "upload_progress", !.chunk = chunks,
                                      !.totalChunks = t.totalChunks,
                                      !.bytesReceived = received,
                                      !.progress = Rat(progress, 1),
                                      !.requestId = t.requestId])
    IN IF chunks >= t.totalChunks
       THEN [Srv_send(w1, [SrvMsg EXCEPT !.type = "upload_result",
                                         !.bytesReceived = received,
                                         !.duration = w.now - t.startTime,
                                         !.bitsPerSecond = Rat(received * 8, w.now - t.startTime),
                                         !.timestamp = w.now,
                                         !.requestId = t.requestId])
               EXCEPT !.uploadTracker = NoTracker]
       ELSE w1

\* ws.on('message'): a frame for which Buffer.isBuffer(message) holds is upload data.
\* That holds for every binary frame, and for a text frame when the ws library hands
\* text to the listener as a Buffer (textIsBuffer).
P2_incoming(w, msg) ==
  IF msg.binary \/ w.textIsBuffer THEN P2_handleUploadChunk(w, msg.len)
  ELSE IF ~msg.parses
  THEN Srv_send(w, [SrvMsg EXCEPT !.type = "error", !.message = "Invalid message format"])
  ELSE CASE msg.type = "ping" -> Srv_handlePing(w, msg)
         [] msg.type = "download" -> Srv_handleDownload(w, msg)
         [] msg.type = "upload" -> P2_handleUpload(w, msg)
         [] msg.type = "full_test" -> Srv_handleFullTest(w, msg)
         [] OTHER -> Srv_send(w, [SrvMsg EXCEPT !.type = "error", !.message = "Unknown command"])

P2_message(w, msg) == IF w.onmessage THEN P2_incoming(w, msg) ELSE w

\* What has gone out for one handleDownload call: the download_start, the binary
\* frames, the download_progress messages and the download_complete.
NoDownloadSeen == [started |-> FALSE, totalChunks |-> 0, frames |-> 0, bytes |-> 0,
                   maxLen |-> 0, msgs |-> 0, ordered |-> TRUE, lastChunk |-> 0,
                   lastProgress |-> Rat(0, 1), lastBytesSent |-> 0, lastTotalBytes |-> 0,
                   complete |-> FALSE, completeBytes |-> 0]

\* What has gone out since the last upload_ready: the upload_result messages.
NoUploadSeen == [ready |-> FALSE, results |-> 0, bytesReceived |-> 0]

NoWire == [dl |-> [d \in Downloads |-> NoDownloadSeen], upload |-> NoUploadSeen, last |-> <<>>]

\* What the client has sent: its text and binary frames, the chunk size it asked for
\* in each download request, whether it has made an upload request, and the bytes of
\* all binary frames it has sent since its last upload request.
NoPeer == [texts |-> 0, binaries |-> 0, asked |-> [d \in Downloads |-> Null],
           uploading |-> FALSE, uploadBytes |-> 0,
           progressOf |-> 0, lastProgress |-> [n |-> 0, d |-> 1], monotone |-> TRUE]

\* The server before a connection is made
ServerIdle ==
  /\ srvWs = [readyState |-> "none", onmessage |-> FALSE, uploadTracker |-> NoTracker,
              textIsBuffer |-> FALSE]
  /\ downloads = [d \in Downloads |-> NoDownload]
  /\ srvNow = 0
  /\ wire = NoWire
  /\ peer = NoPeer

\* ======================================================================
\* The driver with an arbitrary peer: the caller's calls, the socket's events,
\* the timers, and any frame a peer may send.
\* ======================================================================
Undef == -1          \* a field the constructor does not set

InitSdk ==
  [ws |-> Null, isConnected |-> FALSE, testInProgress |-> FALSE, currentRequestId |-> Null,
   pingStartTime |-> 0, downloadStartTime |-> 0, uploadStartTime |-> 0,
   totalBytes |-> 0, receivedBytes |-> 0,
   uploadedBytes |-> IF sdkClass = "New" THEN Undef ELSE 0,
   progressHandler |-> Null, completionHandler |-> Null, errorHandler |-> Null]

InitClient ==
  /\ sdkClass \in {"Sdk", "New"}
  /\ sdk = InitSdk
  /\ sock = [s \in Sockets |-> NoSock]
  /\ call = [k \in Calls |-> NoCall]
  /\ timers = {}
  /\ micro = <<>>
  /\ now = 0
  /\ nchains = 0
  /\ ENABLE_AUTH = FALSE
  /\ ServerIdle

\* The options a caller may pass.
OptsSet == {[onProgress |-> b, onError |-> b, size |-> 0] : b \in BOOLEAN}

\* The frames a peer may send on a connection: the frames of the exchanges of the
\* requests it has received there, with any request id and payload, and at any time
\* a greeting, an error report, a frame of a type the driver does not know, or text
\* that is not JSON.  The drivers only compare a request id with the current one, so
\* four ids stand for all: none, the empty string, and two that a request may carry.
Ids == {Null, EmptyId, 1, 2}
Msg(ty, r, v, tb) == [type |-> ty, requestId |-> r, val |-> v, totalBytes |-> tb]
PeerMsgs(seen) ==
  {Msg("connected", Null, 0, 0), Msg("malformed", Null, 0, 0)}
  \cup {Msg(ty, r, 0, 0) : ty \in {"error", "upload_complete_ack"}, r \in Ids}
  \cup (IF seen \cap {"ping", "full_test"} # {}
        THEN {Msg("pong", r, 0, 0) : r \in Ids} ELSE {})
  \cup (IF "full_test" \in seen
        THEN {Msg("full_test_start", r, 0, 0) : r \in Ids} ELSE {})
  \cup (IF "download" \in seen
        THEN {Msg("download_start", r, v, 0) : r \in Ids, v \in {0, TEST_FILE_SIZE}}
             \cup {Msg("download_progress", r, v, 0) : r \in Ids, v \in {0, 50, 100}}
             \cup {Msg("download_complete", r, 0, v) : r \in Ids, v \in {0, TEST_FILE_SIZE}}
             \cup {Msg("binary", Null, TEST_FILE_SIZE \div 2, 0)}
        ELSE {})
  \cup (IF "upload" \in seen
        THEN {Msg("upload_ready", r, 0, 0) : r \in Ids}
             \cup {Msg("upload_progress", r, v, 0) : r \in Ids, v \in {0, 50, 100}}
             \cup {Msg("upload_result", r, v, 0) : r \in Ids, v \in {0, 8000}}
        ELSE {})

\* ---------------------------------------------------------------- the steps
\* Each step is the state it leaves, with the effects it had, as a function of the
\* state it starts in (World).

\* The caller invokes a test method, up to the method's first await.
TestPing(o) == IF sdkClass = "New" THEN New_testPing(World, o) ELSE Sdk_testPing(World, o)

TestDownloadSpeed(o) ==
  IF sdkClass = "New" THEN New_testDownloadSpeed(World, o) ELSE Sdk_testDownloadSpeed(World, o)

TestUploadSpeed(o) ==
  IF sdkClass = "New" THEN New_testUploadSpeed(World, o) ELSE Sdk_testUploadSpeed(World, o)

RunFullTest(o) ==
  IF sdkClass = "New" THEN New_runFullTest(World, o) ELSE Sdk_runFullTest(World, o)

\* The caller invokes disconnect().
Disconnect == IF sdkClass = "New" THEN New_disconnect(World) ELSE Sdk_disconnect(World)

\* The continuations queued by the caller's synchronous code run.
Microtasks == Drain(World)

\* The socket opens.
CanOpen(s) == micro = <<>> /\ sock[s].state = "connecting"
Open(s) ==
  LET w == [World EXCEPT !.sock[s].state = "open", !.sock[s].opened = TRUE]
  IN Drain(IF sdkClass = "New" THEN New_onopen(w, s) ELSE Sdk_onopen(w, s))

\* The socket closes without an error: the peer closed it, or the driver's own
\* close() completed.
CanClose(s) ==
  /\ micro = <<>>
  /\ \/ sock[s].state = "open"
     \/ sock[s].state = "closing" /\ (sock[s].opened \/ sdkClass = "Sdk")
Close(s) ==
  LET w == [World EXCEPT !.sock[s].state = "closed", !.sock[s].seen = {}]
  IN Drain(IF sdkClass = "New" THEN New_onclose(w, s) ELSE Sdk_onclose(w, s))

\* The connection fails (handshake failure, network drop, close() before the socket
\* opened): the error event and then the close event, in one task.
CanFail(s) ==
  /\ micro = <<>>
  /\ \/ sock[s].state \in {"connecting", "open"}
     \/ sock[s].state = "closing" /\ ~sock[s].opened
Fail(s) ==
  LET w == [World EXCEPT !.sock[s].state = "closed", !.sock[s].seen = {}]
      w1 == Drain(IF sdkClass = "New" THEN New_onerror(w, s) ELSE Sdk_onerror(w, s))
  IN Drain(IF sdkClass = "New" THEN New_onclose(w1, s) ELSE Sdk_onclose(w1, s))

\* A frame arrives on an open socket.
CanReceive(s, m) ==
  /\ micro = <<>>
  /\ sock[s].state = "open"
  /\ m \in PeerMsgs(sock[s].seen)
  /\ m.type = "binary" => sdk.receivedBytes < MaxRecvFrames * m.val
Receive(s, m) ==
  Drain(IF sdkClass = "New" THEN New_handleMessage(World, m) ELSE Sdk_handleMessage(World, m))

\* A timer of the driver expires.
CanExpire(tm) == micro = <<>> /\ tm \in timers
Expire(tm) ==
  LET w == [World EXCEPT !.timers = @ \ {tm}] IN
  CASE tm.t = "chunk" -> [New_sendNextChunk(w, tm) EXCEPT !.thrown = FALSE]
    [] tm.t = "sdkChunk" -> Sdk_uploadTimer(w, tm)
    [] tm.t = "sdkFinal" -> Sdk_uploadFinalTimer(w, tm)
    [] tm.t = "connectTimeout" -> Drain(Sdk_connectTimeout(w, tm.s))

\* -------------------------------------------------------------- the actions
\* The calls the caller made that were accepted.
UserCalls == {k \in Calls : call[k].kind # "none" /\ call[k].parent = Null}

\* The caller uses one test method on a driver instance, at most MaxUserCalls times
\* with success; a call made while a test is in progress is always possible.
CanCall(kind) ==
  /\ \A k \in UserCalls : call[k].kind = kind
  /\ sdk.testInProgress \/ Cardinality(UserCalls) < MaxUserCalls

CallTestPing == CanCall("ping") /\ \E o \in OptsSet : Commit(TestPing(o))

CallTestDownloadSpeed == CanCall("download") /\ \E o \in OptsSet : Commit(TestDownloadSpeed(o))

CallTestUploadSpeed == CanCall("upload") /\ \E o \in OptsSet : Commit(TestUploadSpeed(o))

CallRunFullTest == CanCall("full") /\ \E o \in OptsSet : Commit(RunFullTest(o))

CallDisconnect == Commit(Disconnect)

RunMicrotasks == micro # <<>> /\ Commit(Microtasks)

SockOpen(s) == CanOpen(s) /\ Commit(Open(s))

SockClose(s) == CanClose(s) /\ Commit(Close(s))

SockFail(s) == CanFail(s) /\ Commit(Fail(s))

Message(s, m) == CanReceive(s, m) /\ Commit(Receive(s, m))

New_ChunkTimer(tm) == CanExpire(tm) /\ tm.t = "chunk" /\ Commit(Expire(tm))

Sdk_ChunkTimer(tm) == CanExpire(tm) /\ tm.t = "sdkChunk" /\ Commit(Expire(tm))

Sdk_FinalTimer(tm) == CanExpire(tm) /\ tm.t = "sdkFinal" /\ Commit(Expire(tm))

Sdk_ConnectTimer(tm) == CanExpire(tm) /\ tm.t = "connectTimeout" /\ Commit(Expire(tm))

\* The clock advances.
Tick ==
  /\ micro = <<>>
  /\ now < MaxTime
  /\ Commit([World EXCEPT !.now = @ + 1])

NextClient ==
  \/ CallTestPing
  \/ CallTestDownloadSpeed
  \/ CallTestUploadSpeed
  \/ CallRunFullTest
  \/ CallDisconnect
  \/ RunMicrotasks
  \/ \E s \in Sockets : SockOpen(s)
  \/ \E s \in Sockets : SockClose(s)
  \/ \E s \in Sockets : SockFail(s)
  \/ \E s \in Sockets : \E m \in PeerMsgs(sock[s].seen) : Message(s, m)
  \/ \E tm \in timers : New_ChunkTimer(tm)
  \/ \E tm \in timers : Sdk_ChunkTimer(tm)
  \/ \E tm \in timers : Sdk_FinalTimer(tm)
  \/ \E tm \in timers : Sdk_ConnectTimer(tm)
  \/ Tick

SpecClient == InitClient /\ [][NextClient]_vars

\* ======================================================================
\* The server with an arbitrary client on one connection
\* ======================================================================
\* What one frame the server sent adds to the summary of the wire.
Observe(o, f) ==
  CASE f.type = "download_start" ->
         [o EXCEPT !.dl[f.d] = [NoDownloadSeen EXCEPT !.started = TRUE,
                                                      !.totalChunks = f.totalChunks]]
    [] f.type = "binary" ->
         [o EXCEPT !.dl[f.d].frames = @ + 1, !.dl[f.d].bytes = @ + f.len,
                   !.dl[f.d].maxLen = IF f.len > @ THEN f.len ELSE @]
    [] f.type = "download_progress" ->
         [o EXCEPT !.dl[f.d].msgs = @ + 1,
                   !.dl[f.d].ordered = @ /\ f.chunk = o.dl[f.d].lastChunk + 1
                                         /\ RatLeq(o.dl[f.d].lastProgress, f.progress),
                   !.dl[f.d].lastChunk = f.chunk,
                   !.dl[f.d].lastProgress = f.progress,
                   !.dl[f.d].lastBytesSent = f.bytesSent,
                   !.dl[f.d].lastTotalBytes = f.totalBytes]
    [] f.type = "download_complete" ->
         [o EXCEPT !.dl[f.d].complete = TRUE, !.dl[f.d].completeBytes = f.totalBytes]
    [] f.type = "upload_ready" -> [o EXCEPT !.upload = [NoUploadSeen EXCEPT !.ready = TRUE]]
    [] f.type = "upload_result" ->
         [o EXCEPT !.upload.results = @ + 1, !.upload.bytesReceived = f.bytesReceived]
    [] OTHER -> o

RECURSIVE ObserveAll(_, _)
ObserveAll(o, frames) ==
  IF frames = <<>> THEN o ELSE ObserveAll(Observe(o, Head(frames)), Tail(frames))

SrvCommit(w) ==
  /\ srvWs' = [readyState |-> w.readyState, onmessage |-> w.onmessage,
               uploadTracker |-> w.uploadTracker, textIsBuffer |-> w.textIsBuffer]
  /\ downloads' = w.downloads
  /\ srvNow' = w.now
  /\ wire' = ObserveAll([wire EXCEPT !.last = w.out], w.out)
  /\ UNCHANGED <<ENABLE_AUTH, clientVars>>

InitServer ==
  /\ ENABLE_AUTH \in BOOLEAN
  /\ ServerIdle
  /\ sdkClass = "Sdk"
  /\ sdk = InitSdk
  /\ sock = [s \in Sockets |-> NoSock]
  /\ call = [k \in Calls |-> NoCall]
  /\ timers = {}
  /\ micro = <<>>
  /\ now = 0
  /\ nchains = 0

\* The URLs a client may open: any token at all, or the URL one of the drivers makes
\* of its serverUrl and authToken.
\* The frames a client may send.  Text frames: a ping as JSON.stringify writes it, a
\* ping written with a space after the colon, download and upload requests, the other
\* types, braced text that is no JSON (with and without the ping text in it), a download
\* request with a nested member "type":"ping", and text without braces ("hello").
ServerUrls == {<<>>, <<"?", "a", "=", "b">>}
AuthTokens == {<<>>, <<"x">>, <<"x", "&", "token", "=", "y">>}
Tokens == {Null, EmptyId, 1}
          \cup {Srv_tokenArg(Srv_searchParamsToken(Sdk_url(u, a))) : u \in ServerUrls, a \in AuthTokens}
          \cup {Srv_tokenArg(Srv_searchParamsToken(New_url(u, a))) : u \in ServerUrls, a \in AuthTokens}
ChunkSizes == {Null, 262144, 2097152, -65536}
UploadSizes == {Null, 65536, 524288}
BinaryLens == {65536, 524288}
TextLens == {5}
ReqIds == {Null, peer.texts + 1}
FreshId == peer.texts + 1

TextFrames ==
  {[CliMsg EXCEPT !.type = "ping", !.pingText = TRUE, !.requestId = r] : r \in ReqIds}
  \cup {[CliMsg EXCEPT !.type = "ping"]}
  \cup {[CliMsg EXCEPT !.type = "download", !.chunkSize = c, !.requestId = FreshId] :
          c \in ChunkSizes}
  \cup {[CliMsg EXCEPT !.type = "upload", !.size = z, !.requestId = FreshId] :
          z \in UploadSizes}
  \cup {[CliMsg EXCEPT !.type = ty, !.requestId = r] :
          ty \in {"upload_complete", "full_test", "bogus"}, r \in ReqIds}
  \cup {[CliMsg EXCEPT !.parses = FALSE, !.pingText = b] : b \in BOOLEAN}
  \cup {[CliMsg EXCEPT !.type = "download", !.pingText = TRUE, !.requestId = FreshId]}
  \cup {[CliMsg EXCEPT !.braced = FALSE, !.parses = FALSE, !.len = n] : n \in TextLens}

BinaryFrames ==
  {[CliMsg EXCEPT !.binary = TRUE, !.braced = b, !.parses = FALSE, !.len = n] :
     b \in BOOLEAN, n \in BinaryLens}

\* The text frame is one that the server hands to handleDownload / handleUpload
IsDownload(m) == m.braced /\ ~m.pingText /\ m.parses /\ m.type = "download"
IsUpload(m) == m.braced /\ ~m.pingText /\ m.parses /\ m.type = "upload"

Connect(token) ==
  /\ srvWs.readyState = "none"
  /\ SrvCommit(Srv_connection(SrvWorld, token))
  /\ UNCHANGED peer

ClientText(m) ==
  /\ srvWs.readyState \in {"open", "closing"}
  /\ peer.texts < MaxTexts
  /\ IsDownload(m) => NextDownload(SrvWorld) # Null
  /\ SrvCommit(Srv_message(SrvWorld, m))
  /\ peer' = [peer EXCEPT !.texts = @ + 1,
                          !.asked = IF IsDownload(m)
                                    THEN [@ EXCEPT ![NextDownload(SrvWorld)] = m.chunkSize]
                                    ELSE @,
                          !.uploading = @ \/ IsUpload(m),
                          !.uploadBytes = IF IsUpload(m) THEN 0 ELSE @]

ClientBinary(m) ==
  /\ srvWs.readyState \in {"open", "closing"}
  /\ peer.binaries < MaxBinaries
  /\ SrvCommit(Srv_message(SrvWorld, m))
  /\ peer' = [peer EXCEPT !.binaries = @ + 1,
                          !.uploadBytes = IF peer.uploading THEN @ + m.len ELSE @]

ClientClose ==
  /\ srvWs.readyState \in {"open", "closing"}
  /\ SrvCommit([SrvWorld EXCEPT !.readyState = "closed"])
  /\ UNCHANGED peer

\* The callback of ws.send for a chunk: with an error when the frame was sent on a
\* closed connection, with or without one when the connection closed afterwards.
SendCallback(d) ==
  /\ downloads[d].pc \in {"sending", "refused"}
  /\ \E err \in BOOLEAN :
       /\ downloads[d].pc = "refused" => err
       /\ srvWs.readyState = "open" => ~err
       /\ SrvCommit(Srv_chunkSent(SrvWorld, d, err))
  /\ UNCHANGED peer

NextChunkTimer(d) ==
  /\ downloads[d].pc = "timer"
  /\ SrvCommit(Srv_sendNextChunk(SrvWorld, d))
  /\ UNCHANGED peer

SrvTick ==
  /\ srvNow < MaxTime
  /\ SrvCommit([SrvWorld EXCEPT !.now = @ + 1])
  /\ UNCHANGED peer

NextServer ==
  \/ \E token \in Tokens : Connect(token)
  \/ \E m \in TextFrames : ClientText(m)
  \/ \E m \in BinaryFrames : ClientBinary(m)
  \/ ClientClose
  \/ \E d \in Downloads : SendCallback(d)
  \/ \E d \in Downloads : NextChunkTimer(d)
  \/ SrvTick

SpecServer == InitServer /\ [][NextServer]_vars

\* ======================================================================
\* A driver and a server of the other upload dialect on one connection: Sdk (which
\* asks for totalChunks) with websocket-server.js (which counts bytes), SdkNew (which
\* asks for a size) with the chunk-count server.  A frame is delivered as soon as it
\* is sent.
\* ======================================================================

\* The frame f of the driver as the server gets it.  JSON.stringify writes a ping as
\* the text the server's short cut looks for; the data of a chunk is random bytes.
ToServer(cls, f) ==
  IF f.type = "binary"
  THEN [CliMsg EXCEPT !.binary = TRUE, !.braced = FALSE, !.parses = FALSE, !.len = f.val]
  ELSE [CliMsg EXCEPT !.type = f.type, !.requestId = f.requestId,
                      !.pingText = (f.type = "ping"),
                      !.size = IF cls = "New" /\ f.type = "upload" THEN f.val ELSE Null,
                      !.totalChunks = IF cls = "Sdk" /\ f.type \in {"upload", "full_test"}
                                      THEN SDK_CHUNKS ELSE Null]

\* The number a driver reads from a JSON number: null (d = 0) reads as a falsy value
JsonValue(r) == IF r.d = 0 THEN 0 ELSE r.n \div r.d

\* The frame f of the server as the driver gets it
ToClient(f) ==
  CASE f.type = "binary" -> Msg("binary", Null, f.len, 0)
    [] f.type = "download_start" -> Msg(f.type, f.requestId, f.totalSize, 0)
    [] f.type \in {"download_progress", "upload_progress"} ->
         Msg(f.type, f.requestId, JsonValue(f.progress), 0)
    [] f.type = "download_complete" -> Msg(f.type, f.requestId, 0, f.totalBytes)
    [] f.type = "upload_result" -> Msg(f.type, f.requestId, JsonValue(f.bitsPerSecond), 0)
    [] OTHER -> Msg(f.type, f.requestId, 0, 0)

\* onmessage of the driver's socket, when the driver's end is open
ClientRecv(c, m) ==
  IF \E s \in Sockets : c.sock[s].state = "open"
  THEN Drain(IF c.cls = "New" THEN New_handleMessage(c, m) ELSE Sdk_handleMessage(c, m))
  ELSE c

\* The 'message' listener of the server of the other dialect
ServerRecv(cls, s, m) == IF cls = "Sdk" THEN Srv_message(s, m) ELSE P2_message(s, m)

\* The frames in flight are delivered until none is left: q are the frames of the
\* server on their way to the driver, c.fx.sent the frames of the driver on their way
\* to the server, log all the frames the server has sent in this step.
RECURSIVE Exchange(_, _, _, _)
Exchange(c, s, q, log) ==
  IF c.ovf THEN [c |-> c, s |-> s]
  ELSE IF q # <<>> THEN Exchange(ClientRecv(c, ToClient(Head(q))), s, Tail(q), log)
  ELSE IF c.fx.sent # <<>>
  THEN LET s1 == ServerRecv(c.cls, [s EXCEPT !.out = <<>>], ToServer(c.cls, Head(c.fx.sent).f))
       IN Exchange([c EXCEPT !.fx.sent = Tail(@)], s1, s1.out, log \o s1.out)
  ELSE [c |-> c, s |-> [s EXCEPT !.out = log]]

DCommit(x) ==
  /\ ~x.c.ovf
  /\ sdk' = [f \in SdkFields |-> x.c[f]]
  /\ sock' = x.c.sock
  /\ call' = x.c.call
  /\ timers' = x.c.timers
  /\ micro' = x.c.micro
  /\ now' = x.c.now
  /\ nchains' = x.c.nchains
  /\ srvWs' = [readyState |-> x.s.readyState, onmessage |-> x.s.onmessage,
               uploadTracker |-> x.s.uploadTracker, textIsBuffer |-> x.s.textIsBuffer]
  /\ downloads' = x.s.downloads
  /\ srvNow' = x.s.now
  /\ wire' = ObserveAll([wire EXCEPT !.last = x.s.out], x.s.out)
  /\ UNCHANGED <<sdkClass, ENABLE_AUTH, peer>>

InitDialect ==
  /\ sdkClass \in {"Sdk", "New"}
  /\ sdk = InitSdk
  /\ sock = [s \in Sockets |-> NoSock]
  /\ call = [k \in Calls |-> NoCall]
  /\ timers = {}
  /\ micro = <<>>
  /\ now = 0
  /\ nchains = 0
  /\ ENABLE_AUTH = FALSE
  /\ \E b \in BOOLEAN :
       srvWs = [readyState |-> "none", onmessage |-> FALSE, uploadTracker |-> NoTracker,
                textIsBuffer |-> b]
  /\ downloads = [d \in Downloads |-> NoDownload]
  /\ srvNow = 0
  /\ wire = NoWire
  /\ peer = NoPeer

\* The caller starts an upload test; the continuations of the call run.
DCallUpload ==
  /\ Cardinality(UserCalls) < MaxUserCalls
  /\ \E o \in OptsSet : DCommit(Exchange(Drain(TestUploadSpeed(o)), SrvWorld, <<>>, <<>>))

\* The connection is made: the server's connection handler runs on a new ws object,
\* the driver's socket opens.
DOpen(s) ==
  /\ CanOpen(s)
  /\ \A x \in Sockets : sock[x].state # "open"
  /\ srvWs.readyState \in {"none", "closed"}
  /\ LET s0 == Srv_connection([SrvWorld EXCEPT !.readyState = "none", !.onmessage = FALSE,
                                               !.uploadTracker = NoTracker], Null)
     IN DCommit(Exchange(Open(s), s0, s0.out, s0.out))

\* The connection closes at both ends.
DClose(s) ==
  /\ micro = <<>>
  /\ sock[s].state \in {"open", "closing"}
  /\ sock[s].opened
  /\ DCommit(Exchange(Close(s), [SrvWorld EXCEPT !.readyState = "closed"], <<>>, <<>>))

\* A socket that never got connected fails.
DFail(s) ==
  /\ CanFail(s)
  /\ ~sock[s].opened
  /\ DCommit(Exchange(Fail(s), SrvWorld, <<>>, <<>>))

\* A timer of the driver expires.
DTimer(tm) == CanExpire(tm) /\ DCommit(Exchange(Expire(tm), SrvWorld, <<>>, <<>>))

\* The clocks of both sides advance.
DTick ==
  /\ micro = <<>>
  /\ now < MaxTime
  /\ DCommit([c |-> [World EXCEPT !.now = @ + 1], s |-> [SrvWorld EXCEPT !.now = @ + 1]])

NextDialect ==
  \/ DCallUpload
  \/ \E s \in Sockets : DOpen(s)
  \/ \E s \in Sockets : DClose(s)
  \/ \E s \in Sockets : DFail(s)
  \/ \E tm \in timers : DTimer(tm)
  \/ DTick

SpecDialect == InitDialect /\ [][NextDialect]_vars

\* ======================================================================
\* A driver and the server of its own upload dialect on one connection:
\* SpeedTestWebSocketSdkNew with websocket-server.js (size), SpeedTestWebSocketSdk
\* with the chunk-count server (totalChunks).
\* ======================================================================
\* The options of the upload tests: the default size, or one chunk's worth
UploadOpts == {[onProgress |-> b, onError |-> FALSE, size |-> z] :
                 b \in BOOLEAN, z \in {0, NEW_CHUNK_SIZE}}

\* The 'message' listener of the server of the driver's dialect
SessionRecv(cls, s, m) == IF cls = "New" THEN Srv_message(s, m) ELSE P2_message(s, m)

\* What the frame f of the driver, which the server with tracker t gets, makes of the
\* count g of the bytes that the driver sent for the tracker's request and the server
\* got while that tracker was active.  A chunk belongs to the request that was the
\* current one when sendUploadData generated it.
OwnBytes(g, t, f) ==
  IF f.type = "upload" THEN 0
  ELSE IF f.type = "binary" /\ t.set /\ f.requestId = t.requestId THEN g + f.val
  ELSE g

\* The frames in flight are delivered until none is left (as in Exchange).
RECURSIVE Session(_, _, _, _, _)
Session(c, s, q, log, g) ==
  IF c.ovf THEN [c |-> c, s |-> s, g |-> g]
  ELSE IF q # <<>> THEN Session(ClientRecv(c, ToClient(Head(q))), s, Tail(q), log, g)
  ELSE IF c.fx.sent # <<>>
  THEN LET f == Head(c.fx.sent).f
           s1 == SessionRecv(c.cls, [s EXCEPT !.out = <<>>], ToServer(c.cls, f))
       IN Session([c EXCEPT !.fx.sent = Tail(@)], s1, s1.out, log \o s1.out,
                  IF s.onmessage /\ s.readyState = "open"
                  THEN OwnBytes(g, s.uploadTracker, f) ELSE g)
  ELSE [c |-> c, s |-> [s EXCEPT !.out = log], g |-> g]

\* What the values that a step passed to the progress handlers of download tests
\* (reported, in their order) add to the summary g of the values so far: the test the
\* last value was reported for, that value, and whether the values of each test came
\* in non-decreasing order.
RECURSIVE Reported(_, _, _)
Reported(g, c, reported) ==
  IF reported = <<>> THEN g
  ELSE LET e == Head(reported) IN
       Reported(IF c.call[e.k].kind # "download" THEN g
                ELSE IF e.k # g.progressOf
                THEN [g EXCEPT !.progressOf = e.k, !.lastProgress = e.v]
                ELSE [g EXCEPT !.lastProgress = e.v,
                               !.monotone = @ /\ RatLeq(g.lastProgress, e.v)],
                c, Tail(reported))

\* The step of the driver, which may start up to MaxSessionChains chunk chains
InSession(w) == [w EXCEPT !.maxChains = MaxSessionChains]

SCommit(x) ==
  /\ ~x.c.ovf
  /\ sdk' = [f \in SdkFields |-> x.c[f]]
  /\ sock' = x.c.sock
  /\ call' = x.c.call
  /\ timers' = x.c.timers
  /\ micro' = x.c.micro
  /\ now' = x.c.now
  /\ nchains' = x.c.nchains
  /\ srvWs' = [readyState |-> x.s.readyState, onmessage |-> x.s.onmessage,
               uploadTracker |-> x.s.uploadTracker, textIsBuffer |-> x.s.textIsBuffer]
  /\ downloads' = x.s.downloads
  /\ srvNow' = x.s.now
  /\ wire' = ObserveAll([wire EXCEPT !.last = x.s.out], x.s.out)
  /\ peer' = Reported([peer EXCEPT !.uploadBytes = x.g], x.c, x.c.fx.progress)
  /\ UNCHANGED <<sdkClass, ENABLE_AUTH>>

InitSession ==
  /\ sdkClass \in {"Sdk", "New"}
  /\ sdk = InitSdk
  /\ sock = [s \in Sockets |-> NoSock]
  /\ call = [k \in Calls |-> NoCall]
  /\ timers = {}
  /\ micro = <<>>
  /\ now = 0
  /\ nchains = 0
  /\ ENABLE_AUTH = FALSE
  /\ ServerIdle

\* The caller starts an upload test; the continuations of the call run.
SCallUpload ==
  /\ Cardinality(UserCalls) < MaxUserCalls
  /\ \A k \in UserCalls : call[k].kind = "upload"
  /\ \E o \in UploadOpts :
       SCommit(Session(InSession(Drain(TestUploadSpeed(o))), SrvWorld, <<>>, <<>>,
                       peer.uploadBytes))

\* The caller starts a download test; the continuations of the call run.
SCallDownload ==
  /\ Cardinality(UserCalls) < MaxUserCalls
  /\ \A k \in UserCalls : call[k].kind = "download"
  /\ \E o \in OptsSet :
       SCommit(Session(InSession(Drain(TestDownloadSpeed(o))), SrvWorld, <<>>, <<>>,
                       peer.uploadBytes))

\* The callback of ws.send for a chunk runs (with an error when the connection is
\* closed); the driver gets what it sends.
SChunkSent(d) ==
  /\ micro = <<>>
  /\ downloads[d].pc \in {"sending", "refused"}
  /\ LET s1 == Srv_chunkSent(SrvWorld, d, srvWs.readyState # "open")
     IN SCommit(Session(InSession(World), s1, s1.out, s1.out, peer.uploadBytes))

\* The timer of sendNextChunk expires; the driver gets what it sends.
SNextChunk(d) ==
  /\ micro = <<>>
  /\ downloads[d].pc = "timer"
  /\ LET s1 == Srv_sendNextChunk(SrvWorld, d)
     IN SCommit(Session(InSession(World), s1, s1.out, s1.out, peer.uploadBytes))

\* The connection is made: the server's connection handler runs on a new ws object,
\* the driver's socket opens.  The downloads of a connection before have run out.
SOpen(s) ==
  /\ CanOpen(s)
  /\ \A d \in Downloads : downloads[d].pc \notin {"sending", "refused", "timer"}
  /\ \A x \in Sockets : sock[x].state # "open"
  /\ srvWs.readyState \in {"none", "closed"}
  /\ LET s0 == Srv_connection([SrvWorld EXCEPT !.readyState = "none", !.onmessage = FALSE,
                                               !.uploadTracker = NoTracker], Null)
     IN SCommit(Session(InSession(Open(s)), s0, s0.out, s0.out, 0))

\* The connection closes at both ends.
SClose(s) ==
  /\ micro = <<>>
  /\ sock[s].state \in {"open", "closing"}
  /\ sock[s].opened
  /\ SCommit(Session(InSession(Close(s)), [SrvWorld EXCEPT !.readyState = "closed"],
                     <<>>, <<>>, peer.uploadBytes))

\* A timer of the driver expires.
STimer(tm) ==
  /\ CanExpire(tm)
  /\ SCommit(Session(InSession(Expire(tm)), SrvWorld, <<>>, <<>>, peer.uploadBytes))

\* The clocks of both sides advance.
STick ==
  /\ micro = <<>>
  /\ now < MaxTime
  /\ SCommit([c |-> [World EXCEPT !.now = @ + 1], s |-> [SrvWorld EXCEPT !.now = @ + 1],
              g |-> peer.uploadBytes])

NextSession ==
  \/ SCallUpload
  \/ SCallDownload
  \/ \E d \in Downloads : SChunkSent(d)
  \/ \E d \in Downloads : SNextChunk(d)
  \/ \E s \in Sockets : SOpen(s)
  \/ \E s \in Sockets : SClose(s)
  \/ \E tm \in timers : STimer(tm)
  \/ STick

SpecSession == InitSession /\ [][NextSession]_vars

\* ======================================================================
\* Properties of the drivers
\* ======================================================================
Methods == {"testPing", "testDownloadSpeed", "testUploadSpeed", "runFullTest"}

TestCall(meth, o) ==
  CASE meth = "testPing" -> TestPing(o)
    [] meth = "testDownloadSpeed" -> TestDownloadSpeed(o)
    [] meth = "testUploadSpeed" -> TestUploadSpeed(o)
    [] OTHER -> RunFullTest(o)

\* The promise a call returned was rejected at once with the given error.
ThrewAtOnce(w, err) ==
  w.fx.settled = <<[k |-> Null, how |-> "rejected", err |-> err, val |-> NoVal]>>

\* Nothing is going on any more: no continuation or timer is waiting, and every
\* socket the driver created is closed.
Quiescent ==
  /\ micro = <<>>
  /\ timers = {}
  /\ \A s \in Sockets : sock[s].state \in {"none", "closed"}

\* The test whose promise the completion handler settles, when it is still pending.
Outstanding ==
  IF sdk.completionHandler # Null /\ call[sdk.completionHandler].promise = "pending"
  THEN sdk.completionHandler ELSE Null

\* C1: in both drivers, a call of testPing, testDownloadSpeed, testUploadSpeed or
\* runFullTest made while testInProgress is true fails at once with 'A test is
\* already in progress', sends no frame, opens no socket, and leaves testInProgress,
\* currentRequestId and the handlers (and the sockets and the other calls) as they were.
C1_SecondCallFailsFast ==
  sdk.testInProgress =>
    \A meth \in Methods, o \in OptsSet :
      LET w == TestCall(meth, o) IN
      /\ ThrewAtOnce(w, "A test is already in progress")
      /\ w.fx.sent = <<>> /\ w.fx.opened = 0
      /\ w.fx.progress = <<>> /\ w.fx.completion = <<>> /\ w.fx.errors = <<>>
      /\ [f \in SdkFields |-> w[f]] = sdk
      /\ w.sock = sock /\ w.call = call /\ w.timers = timers /\ w.micro = micro

\* A test has sent its request and waits for the answer, and a second call is made.
C1_Witness ==
  /\ sdk.testInProgress
  /\ Outstanding # Null
  /\ sdk.ws # Null /\ sock[sdk.ws].state = "open" /\ sock[sdk.ws].seen # {}
  /\ \E meth \in Methods, o \in OptsSet :
       ThrewAtOnce(TestCall(meth, o), "A test is already in progress")

\* C2: in SdkNew, when the channel closes while a test promise is pending, the promise
\* is rejected: once every socket is closed and nothing is scheduled any more, no
\* promise is left pending.
C2_CloseRejectsPending ==
  (sdkClass = "New" /\ Quiescent) => \A k \in Calls : call[k].promise # "pending"

\* C3: in Sdk, when the socket closes while a test promise is pending, the promise is
\* rejected and testInProgress becomes false: once every socket is closed and nothing
\* is scheduled any more, no promise is left pending and a new call is accepted.
C3_CloseRejectsPending ==
  (sdkClass = "Sdk" /\ Quiescent) =>
    /\ \A k \in Calls : call[k].promise # "pending"
    /\ ~sdk.testInProgress

\* A JSON control frame the handlers of the drivers know.
Control(m) == m.type \notin {"binary", "malformed"}

\* The frame leaves the test state alone: no callback, no promise settled, and
\* testInProgress, the byte counts and the start times as they were.
Discarded(w) ==
  /\ w.fx.completion = <<>> /\ w.fx.progress = <<>> /\ w.fx.settled = <<>>
  /\ w.testInProgress = sdk.testInProgress
  /\ w.receivedBytes = sdk.receivedBytes /\ w.totalBytes = sdk.totalBytes
  /\ w.pingStartTime = sdk.pingStartTime
  /\ w.downloadStartTime = sdk.downloadStartTime
  /\ w.uploadStartTime = sdk.uploadStartTime

\* C4: SdkNew.handleMessage discards a JSON control message that carries a request
\* id other than currentRequestId.
C4_StaleDiscarded ==
  sdkClass = "New" =>
    \A s \in Sockets : \A m \in PeerMsgs(sock[s].seen) :
      (CanReceive(s, m) /\ Control(m) /\ Truthy(m.requestId)
         /\ m.requestId # sdk.currentRequestId)
      => Discarded(Receive(s, m))

C6_ErrorFrameRejects ==
  sdkClass = "New" =>
    \A s \in Sockets : \A m \in PeerMsgs(sock[s].seen) :
      (CanReceive(s, m) /\ m.type = "error" /\ Outstanding # Null /\ sdk.testInProgress)
      => LET w == Receive(s, m) IN
         /\ w.call[Outstanding].promise = "rejected"
         /\ ~w.testInProgress

\* The upload of the current request has sent its first chunk on the open socket s:
\* the timer for a later chunk is only set after an earlier one was sent.
ChunkSent(s) ==
  /\ sdk.ws = s /\ sdk.isConnected
  /\ \E tm \in timers : tm.t = "chunk" /\ tm.req = sdk.currentRequestId /\ tm.idx >= 1

\* C8: in SdkNew, uploadedBytes counts the bytes of the chunks sent since upload_ready,
\* so that testUploadSpeed resolves with a positive speed when upload_result arrives
\* after at least one byte was uploaded and a positive time has passed.
C8_UploadSpeedPositive ==
  sdkClass = "New" =>
    \A s \in Sockets : \A m \in PeerMsgs(sock[s].seen) :
      (/\ CanReceive(s, m) /\ m.type = "upload_result"
       /\ Outstanding # Null /\ call[Outstanding].kind = "upload"
       /\ m.requestId = sdk.currentRequestId
       /\ ChunkSent(s) /\ now > sdk.uploadStartTime)
      => LET w == Receive(s, m) IN
         /\ sdk.uploadedBytes > 0
         /\ Len(w.fx.settled) = 1
         /\ w.fx.settled[1].how = "resolved"
         /\ w.fx.settled[1].val.n > 0 /\ w.fx.settled[1].val.d > 0

\* The sub-tests of kind kind that the runFullTest call k has started.
SubTests(c, k, kind) == {j \in Calls : c[j].parent = k /\ c[j].kind = kind}

\* What the events that can happen now (the waiting continuations, a socket event, a
\* frame, a timer) each lead to.
EventSteps ==
  {Microtasks}
  \cup {Open(s) : s \in {x \in Sockets : CanOpen(x)}}
  \cup {Close(s) : s \in {x \in Sockets : CanClose(x)}}
  \cup {Fail(s) : s \in {x \in Sockets : CanFail(x)}}
  \cup UNION {{Receive(s, m) : m \in {x \in PeerMsgs(sock[s].seen) : CanReceive(s, x)}} :
              s \in Sockets}
  \cup {Expire(tm) : tm \in {x \in timers : CanExpire(x)}}

\* C16: SdkNew.runFullTest starts its ping sub-test first, its download sub-test (and
\* so the download request) only when the ping sub-test was resolved, and its upload
\* sub-test only when the download sub-test was resolved; when a sub-test is rejected,
\* runFullTest is rejected with the same error in the same task, no request of a
\* sub-test goes out in that task, and no later sub-test is ever started.
C16_FullTestInOrder ==
  sdkClass = "New" =>
    /\ \A k \in Calls : call[k].kind = "full" =>
         /\ Cardinality(SubTests(call, k, "ping")) = 1
         /\ Cardinality(SubTests(call, k, "download")) <= 1
         /\ Cardinality(SubTests(call, k, "upload")) <= 1
         /\ SubTests(call, k, "download") # {} =>
              \A j \in SubTests(call, k, "ping") : call[j].promise = "resolved"
         /\ SubTests(call, k, "upload") # {} =>
              \A j \in SubTests(call, k, "download") : call[j].promise = "resolved"
         /\ \A j \in Calls : (call[j].parent = k /\ call[j].pc = "run") =>
              /\ call[j].kind = "download" => "pingTime" \in call[k].results
              /\ call[j].kind = "upload" => {"pingTime", "downloadSpeed"} \subseteq call[k].results
         /\ (micro = <<>> /\ \E j \in Calls : call[j].parent = k /\ call[j].promise = "rejected") =>
              call[k].promise = "rejected"
    /\ \A w \in EventSteps : \A i \in DOMAIN w.fx.settled :
         LET e == w.fx.settled[i] IN
         (e.k # Null /\ e.how = "rejected" /\ call[e.k].parent # Null) =>
           /\ \E i2 \in (i + 1)..Len(w.fx.settled) :
                w.fx.settled[i2] = [e EXCEPT !.k = call[e.k].parent]
           /\ \A x \in DOMAIN w.fx.sent :
                w.fx.sent[x].f.type \in Requests =>
                  w.call[w.fx.sent[x].f.requestId].parent # call[e.k].parent
           /\ \A j \in Calls : w.call[j].parent = call[e.k].parent => call[j].parent = w.call[j].parent

\* A runFullTest whose ping was resolved and whose download sub-test was rejected.
C16_Witness ==
  /\ sdkClass = "New"
  /\ micro = <<>>
  /\ \E k \in Calls :
       /\ call[k].kind = "full" /\ call[k].promise = "rejected"
       /\ \E j \in SubTests(call, k, "download") : call[j].promise = "rejected" /\ call[j].pc = "run"
       /\ SubTests(call, k, "upload") = {}

\* The object Sdk.runFullTest resolves with, built from the result its
\* completionHandler was called with: which of the three fields hold a value (a field
\* the result lacks is undefined).
Sdk_fullTestResult(result) ==
  [pingTime |-> result.f = "pingTime", downloadSpeed |-> result.f = "downloadSpeed",
   uploadSpeed |-> result.f = "uploadSpeed"]

\* C17: when a runFullTest call of Sdk is resolved, the result it is resolved with has
\* pingTime, downloadSpeed and uploadSpeed all populated.
C17_FullResultPopulated ==
  sdkClass = "Sdk" =>
    \A w \in EventSteps : \A i \in DOMAIN w.fx.settled :
      LET e == w.fx.settled[i] IN
      (e.k # Null /\ call[e.k].kind = "full" /\ e.how = "resolved") =>
        LET r == Sdk_fullTestResult(e.val) IN r.pingTime /\ r.downloadSpeed /\ r.uploadSpeed

\* The driver is connected: the socket it holds is open.
Connected == sdk.ws # Null /\ sock[sdk.ws].state = "open"

\* connect() of SdkNew / connectWebSocket() of Sdk, called on behalf of call k
DriverConnect(w, k) == IF w.cls = "New" THEN New_connect(w, k) ELSE Sdk_connectWebSocket(w, k)

DriverDisconnect(w) == IF w.cls = "New" THEN New_disconnect(w) ELSE Sdk_disconnect(w)

\* C18: in both drivers, disconnect() called twice in a row leaves the state that one
\* call leaves, and connect() / connectWebSocket() called while the driver is
\* connected succeeds (the caller goes on) without a new socket and without a change
\* of the driver's state.
C18_Idempotent ==
  /\ DriverDisconnect(DriverDisconnect(World)) = DriverDisconnect(World)
  /\ Connected =>
       \A k \in Calls :
         LET w == DriverConnect(World, k) IN
         /\ w.fx.opened = 0 /\ ~w.ovf
         /\ w.micro = Append(micro, Micro("resume", k, Null, TRUE, "", "none"))
         /\ [w EXCEPT !.micro = micro] = World

\* C19: in both drivers, while a test call waits for a socket that has not opened (and
\* no error event has come), a timer of the connect operation is pending, and when it
\* expires the call is rejected and testInProgress is false again.
C19_ConnectTimesOut ==
  \A s \in Sockets :
    (sock[s].state = "connecting" /\ sock[s].connectP = "pending" /\ micro = <<>>) =>
      \E tm \in timers :
        /\ tm.t = "connectTimeout" /\ tm.s = s
        /\ LET w == Expire(tm) IN
           /\ w.call[sock[s].waiter].promise = "rejected"
           /\ ~w.testInProgress

\* ======================================================================
\* Properties of the server
\* ======================================================================
\* The chunk size C of the download request that started handleDownload call d.
AskedChunkSize(d) == IF peer.asked[d] = Null THEN DEFAULT_CHUNK_SIZE ELSE peer.asked[d]

\* C7: when an upload_result has been sent for an upload request, its bytesReceived is
\* the sum of the lengths of all binary frames the client has sent for that request.
C7_BytesReceivedIsBytesSent ==
  wire.upload.results > 0 => wire.upload.bytesReceived = peer.uploadBytes

C10_ProgressOrdered ==
  \A d \in Downloads :
    LET o == wire.dl[d] IN
    /\ o.ordered
    /\ (o.complete /\ o.msgs > 0) =>
         /\ o.lastProgress = Rat(100, 1)
         /\ o.lastBytesSent = o.lastTotalBytes

C10_Witness ==
  \E d \in Downloads :
    /\ wire.dl[d].complete
    /\ wire.dl[d].msgs = 11
    /\ wire.dl[d].lastChunk = 11
    /\ wire.dl[d].lastProgress = Rat(100, 1)
    /\ \E e \in Downloads : e # d /\ wire.dl[e].started /\ wire.dl[e].msgs > 0

\* C11: every ping request (a text frame that parses as JSON with type "ping") is
\* answered with exactly one pong that carries the request's requestId, and leaves the
\* upload tracker and the downloads as they were.
C11_PingGetsPong ==
  srvWs.readyState = "open" =>
    \A m \in TextFrames :
      (m.parses /\ m.type = "ping") =>
        LET w == Srv_incoming(SrvWorld, m) IN
        /\ Len(w.out) = 1
        /\ w.out[1].type = "pong"
        /\ w.out[1].requestId = m.requestId
        /\ w.uploadTracker = srvWs.uploadTracker
        /\ w.downloads = downloads

\* The frame a rejected connection is sent.
AuthFailed == [SrvMsg EXCEPT !.type = "error", !.message = "Authentication failed"]

\* C12: with authentication enabled, a connection without a token, or with an empty
\* one, is sent exactly one error 'Authentication failed' and no connected, is closed
\* by the server, and gets no message handler: whatever frame the client sends
\* afterwards, nothing is sent back, no upload tracker is made and no download starts.
C12_NoTokenRejected ==
  /\ (srvWs.readyState = "none" /\ ENABLE_AUTH) =>
       \A token \in {Null, EmptyId} :
         LET w == Srv_connection(SrvWorld, token) IN
         /\ w.out = <<AuthFailed>>
         /\ w.readyState = "closing"
         /\ ~w.onmessage
  /\ (srvWs.readyState # "none" /\ ~srvWs.onmessage) =>
       /\ ENABLE_AUTH
       /\ srvWs.readyState \in {"closing", "closed"}
       /\ wire.last \in {<<>>, <<AuthFailed>>}
       /\ ~srvWs.uploadTracker.set
       /\ \A d \in Downloads : downloads[d].pc = "idle" /\ ~wire.dl[d].started
       /\ ~wire.upload.ready
       /\ \A m \in TextFrames \cup BinaryFrames : Srv_message(SrvWorld, m) = SrvWorld

C12_Witness ==
  /\ ENABLE_AUTH
  /\ srvWs.readyState = "closing"
  /\ ~srvWs.onmessage
  /\ peer.texts > 0
  /\ peer.binaries > 0
  /\ wire.last = <<>>

\* The URL a driver of class cls opens.
DriverUrl(cls, serverUrl, authToken) ==
  IF cls = "Sdk" THEN Sdk_url(serverUrl, authToken) ELSE New_url(serverUrl, authToken)

\* C13: a driver of either class that is configured with a non-empty authToken opens
\* a URL from which the server reads that very token, so that a server with
\* authentication enabled answers the connection with connected alone.
C13_TokenAppended ==
  (srvWs.readyState = "none" /\ ENABLE_AUTH) =>
    \A cls \in {"Sdk", "New"}, u \in ServerUrls, a \in AuthTokens \ {<<>>} :
      LET tok == Srv_searchParamsToken(DriverUrl(cls, u, a))
          w == Srv_connection(SrvWorld, Srv_tokenArg(tok))
      IN /\ tok.present
         /\ tok.val = a
         /\ w.out = <<[SrvMsg EXCEPT !.type = "connected"]>>
         /\ w.readyState = "open"

\* C14: every text frame that is no valid JSON is answered with exactly one error
\* 'Invalid message format', leaves the upload tracker and the downloads as they were,
\* and leaves the connection open with its message handler.
C14_MalformedTextGetsError ==
  (srvWs.readyState = "open" /\ srvWs.onmessage) =>
    \A m \in TextFrames :
      ~m.parses =>
        LET w == Srv_message(SrvWorld, m) IN
        /\ w.out = <<[SrvMsg EXCEPT !.type = "error", !.message = "Invalid message format"]>>
        /\ w.uploadTracker = srvWs.uploadTracker
        /\ w.downloads = downloads
        /\ w.readyState = "open"
        /\ w.onmessage

\* The first frame of the reply that the type of a request calls for.
ReplyTo(type) ==
  CASE type = "ping" -> "pong"
    [] type = "download" -> "download_start"
    [] type = "upload" -> "upload_ready"
    [] type = "upload_complete" -> "upload_complete_ack"
    [] type = "full_test" -> "full_test_start"
    [] OTHER -> "error"

\* C15: for every text frame that parses as JSON, the reply is the one its type calls
\* for, whatever the spelling or the nested content of the text: a pong, a
\* download_start, an upload_ready, an upload_complete_ack or a full_test_start; for
\* any other type, exactly one error 'Unknown command' and no change of state.
C15_DispatchByType ==
  (srvWs.readyState = "open" /\ srvWs.onmessage) =>
    \A m \in TextFrames :
      (m.parses /\ (m.type = "download" => NextDownload(SrvWorld) # Null)) =>
        LET w == Srv_message(SrvWorld, m) IN
        /\ w.out # <<>>
        /\ w.out[1].type = ReplyTo(m.type)
        /\ ReplyTo(m.type) = "error" =>
             /\ w.out = <<[SrvMsg EXCEPT !.type = "error", !.message = "Unknown command"]>>
             /\ w.uploadTracker = srvWs.uploadTracker
             /\ w.downloads = downloads

\* C20: when an upload completes with a duration of zero or less (the request and the
\* completing binary frame fall in the same clock tick), the upload_result the server
\* sends carries bitsPerSecond = 0.
C20_ZeroDurationGivesZero ==
  (srvWs.readyState = "open" /\ srvWs.onmessage) =>
    \A m \in BinaryFrames :
      LET w == Srv_message(SrvWorld, m) IN
      \A i \in DOMAIN w.out :
        (w.out[i].type = "upload_result" /\ w.out[i].duration <= 0) =>
          w.out[i].bitsPerSecond = Rat(0, 1)

\* The frames that the server takes for upload data: the frames, binary or text, whose
\* text does not start and end with a brace.
DataFrames == {m \in BinaryFrames \cup TextFrames : ~m.braced}

\* The upload_result frames among the frames out
UploadResults(out) == SelectSeq(out, LAMBDA f : f.type = "upload_result")

\* C21: the frame that brings an upload to its expected total is answered with exactly
\* one upload_result, which carries the requestId of the upload request and is the last
\* frame of the answer, and the tracker is cleared; a data frame that arrives with no
\* tracker is not counted and gets no upload_result; so at most one upload_result goes
\* out per upload request, and none while the tracker is still there.
C21_UploadResultOnce ==
  /\ wire.upload.results <= 1
  /\ srvWs.uploadTracker.set => (wire.upload.ready /\ wire.upload.results = 0)
  /\ (srvWs.readyState = "open" /\ srvWs.onmessage) =>
       \A m \in DataFrames :
         LET w == Srv_message(SrvWorld, m)
             t == srvWs.uploadTracker
             rs == UploadResults(w.out)
         IN IF t.set /\ t.receivedBytes + m.len >= t.totalSize
            THEN /\ Len(rs) = 1
                 /\ rs[1].requestId = t.requestId
                 /\ w.out[Len(w.out)] = rs[1]
                 /\ w.uploadTracker = NoTracker
            ELSE /\ rs = <<>>
                 /\ ~t.set => (w.out = <<>> /\ w.uploadTracker = NoTracker)
  /\ (srvWs.readyState = "open" /\ srvWs.onmessage /\ ~srvWs.uploadTracker.set) =>
       \A m \in BinaryFrames :
         LET w == Srv_message(SrvWorld, m) IN
         UploadResults(w.out) = <<>> /\ w.uploadTracker = NoTracker

\* An upload_result went out and a binary frame arrived after it.
C21_Witness ==
  /\ wire.upload.results = 1
  /\ ~srvWs.uploadTracker.set
  /\ peer.binaries = 2
  /\ peer.uploadBytes > wire.upload.bytesReceived
  /\ wire.last = <<>>

\* C22: a driver that speaks one upload dialect, connected to the server of the other
\* dialect, never gets an upload_result.
C22_NoUploadResult ==
  \A i \in DOMAIN wire.last : wire.last[i].type # "upload_result"

\* C23: every JSON frame the server sends in answer to a request that carries a
\* requestId carries that requestId; this includes the error frames.
C23_RepliesCarryRequestId ==
  (srvWs.readyState = "open" /\ srvWs.onmessage) =>
    \A m \in TextFrames :
      (m.braced /\ m.parses /\ m.requestId # Null
         /\ (m.type = "download" => NextDownload(SrvWorld) # Null)) =>
        LET w == Srv_message(SrvWorld, m) IN
        \A i \in DOMAIN w.out :
          w.out[i].type # "binary" => w.out[i].requestId = m.requestId

\* C24: while a tracker is active, a frame is counted as upload data exactly when it is
\* a binary frame: a binary frame adds its length to receivedBytes (or completes the
\* upload) and is never answered with an error, whatever its content; a text frame
\* leaves receivedBytes alone, unless it is an upload request, which starts afresh.
C24_BinaryIffPayload ==
  (srvWs.readyState = "open" /\ srvWs.onmessage /\ srvWs.uploadTracker.set) =>
    \A m \in TextFrames \cup BinaryFrames :
      LET w == Srv_message(SrvWorld, m)
          t == srvWs.uploadTracker
      IN IF m.binary
         THEN /\ \/ w.uploadTracker = [t EXCEPT !.receivedBytes = @ + m.len,
                                                !.lastProgressUpdate = w.uploadTracker.lastProgressUpdate]
                 \/ /\ t.receivedBytes + m.len >= t.totalSize
                    /\ w.uploadTracker = NoTracker
              /\ \A i \in DOMAIN w.out : w.out[i].type # "error"
         ELSE /\ UploadResults(w.out) = <<>>
              /\ w.uploadTracker = t \/ (m.parses /\ m.type = "upload")

\* C25: a binary frame that arrives while no upload tracker is active gets no answer
\* and changes nothing.
C25_StrayBinaryIgnored ==
  (srvWs.readyState = "open" /\ srvWs.onmessage /\ ~srvWs.uploadTracker.set) =>
    \A m \in BinaryFrames : Srv_message(SrvWorld, m) = SrvWorld

\* C26: the frames of one download go out in the order download_start, then binary
\* frame k followed by the download_progress with chunk = k for k = 1, 2, ..., then
\* download_complete: a binary frame goes out only when every earlier one has had its
\* download_progress, a download_progress only after its binary frame, and
\* download_complete once, after totalChunks binary frames and their messages, after
\* which nothing more goes out.
C26_DownloadFrameOrder ==
  \A d \in Downloads :
    LET o == wire.dl[d] IN
    /\ (o.frames > 0 \/ o.msgs > 0 \/ o.complete) => o.started
    /\ o.msgs <= o.frames /\ o.frames <= o.msgs + 1
    /\ o.lastChunk = o.msgs
    /\ o.totalChunks >= 0 => o.frames <= o.totalChunks
    /\ o.totalChunks < 0 => o.frames = 0
    /\ o.complete =>
         /\ o.frames = o.msgs
         /\ o.totalChunks >= 0 => o.frames = o.totalChunks
         /\ downloads[d].pc = "done"
    /\ downloads[d].pc = "timer" =>
         LET w == Srv_sendNextChunk(SrvWorld, d) IN
         /\ Len(w.out) <= 1
         /\ \A i \in DOMAIN w.out :
              /\ w.out[i].type \in {"binary", "download_complete"}
              /\ w.out[i].d = d
              /\ ~o.complete /\ o.frames = o.msgs
              /\ w.out[i].type = "download_complete" => o.frames = o.totalChunks
              /\ w.out[i].type = "binary" => o.frames < o.totalChunks
    /\ downloads[d].pc = "sending" =>
         LET w == Srv_chunkSent(SrvWorld, d, FALSE) IN
         /\ Len(w.out) <= 1
         /\ \A i \in DOMAIN w.out :
              /\ w.out[i].type = "download_progress"
              /\ w.out[i].d = d
              /\ w.out[i].chunk = o.frames
              /\ ~o.complete /\ o.frames = o.msgs + 1
    /\ downloads[d].pc = "refused" => Srv_chunkSent(SrvWorld, d, TRUE).out = <<>>

\* A download in four chunks has gone out whole while another one was under way.
C26_Witness ==
  \E d \in Downloads :
    /\ wire.dl[d].complete
    /\ wire.dl[d].totalChunks = 4
    /\ wire.dl[d].frames = 4
    /\ wire.dl[d].msgs = 4
    /\ \E e \in Downloads : e # d /\ wire.dl[e].started /\ ~wire.dl[e].complete

\* The upload_progress frames among the frames out
UploadProgresses(out) == SelectSeq(out, LAMBDA f : f.type = "upload_progress")

BinaryOut(out) == SelectSeq(out, LAMBDA f : f.type = "binary")

\* The pings as JSON.stringify writes them
Pings == {m \in TextFrames : m.braced /\ m.pingText /\ m.parses /\ m.type = "ping"}

StaleTimers ==
  {tm \in timers : /\ tm.t \in {"chunk", "sdkChunk", "sdkFinal"}
                    /\ tm.req # sdk.currentRequestId
                    /\ call[tm.req].promise \in {"resolved", "rejected"}}

\* The step invokes no progress handler and no completion handler, and sends no frame
\* that carries the current request id.
NothingForCurrent(w) ==
  /\ w.fx.progress = <<>> /\ w.fx.completion = <<>> /\ w.fx.settled = <<>>
  /\ \A i \in DOMAIN w.fx.sent : w.fx.sent[i].f.requestId # sdk.currentRequestId

\* C29: in both drivers, while a test waits for its answer, what belongs to an earlier
\* test does nothing on its behalf: an upload timer set for another request and a
\* control message that carries the request id of an earlier test invoke neither its
\* progress handler nor its completion handler, and send no frame with its request id.
C29_NoStaleCallbacks ==
  Outstanding # Null =>
    /\ \A tm \in StaleTimers : CanExpire(tm) => NothingForCurrent(Expire(tm))
    /\ \A s \in Sockets : \A m \in PeerMsgs(sock[s].seen) :
         (CanReceive(s, m) /\ Control(m) /\ m.requestId \in Calls
            /\ call[m.requestId].promise \in {"resolved", "rejected"}
            /\ m.requestId # sdk.currentRequestId)
         => NothingForCurrent(Receive(s, m))

\* The number v lies in [lo, hi]
Within(v, lo, hi) == v.d > 0 /\ RatLeq(Rat(lo, 1), v) /\ RatLeq(v, Rat(hi, 1))

\* The runFullTest calls of SdkNew that have not settled
FullTests == {k \in Calls : call[k].kind = "full" /\ call[k].promise = "pending"}

SendsPing(w) == \E i \in DOMAIN w.fx.sent : w.fx.sent[i].f.type = "ping"

\* C31: testPing measures the round trip of the ping frame: the step that sends the
\* ping request leaves pingStartTime at the time of sending, whether the socket was
\* open at the call or had to be opened first, and the pong that carries the request's
\* id resolves the call with the time passed since then.
C31_PingTimeIsRoundTrip ==
  /\ \A w \in EventSteps : SendsPing(w) => w.pingStartTime = w.now
  /\ (Outstanding # Null /\ call[Outstanding].kind = "ping") =>
       \A s \in Sockets : \A m \in PeerMsgs(sock[s].seen) :
         (CanReceive(s, m) /\ m.type = "pong" /\ m.requestId = sdk.currentRequestId)
         => LET w == Receive(s, m) IN
            /\ Len(w.fx.settled) = 1
            /\ w.fx.settled[1].k = Outstanding
            /\ w.fx.settled[1].how = "resolved"
            /\ w.fx.settled[1].val = Result("pingTime", now - sdk.pingStartTime, 1)

\* C32: every byte the server counts for an upload was sent by the driver for the
\* request of that upload: the tracker's receivedBytes, and the bytesReceived of the
\* upload_result, are the bytes of the chunks generated for the tracker's request.
C32_OnlyOwnBytesCounted ==
  /\ srvWs.uploadTracker.set => srvWs.uploadTracker.receivedBytes = peer.uploadBytes
  /\ (~srvWs.uploadTracker.set /\ wire.upload.results > 0) =>
       wire.upload.bytesReceived = peer.uploadBytes

\* The test calls whose promise is not settled
Pending == {k \in Calls : call[k].promise = "pending"}

\* C33: in Sdk, testInProgress is true as long as the promise of a test call is not
\* settled, and no two test calls are pending at once, after any calls of the test
\* methods and of disconnect() and any socket events.
C33_InProgressWhilePending ==
  sdkClass = "Sdk" =>
    /\ Pending # {} => sdk.testInProgress
    /\ Cardinality(Pending) <= 1

\* The driver's current socket is open
CurrentOpen == sdk.ws # Null /\ sock[sdk.ws].state = "open"

\* C34: in both drivers, isConnected is true only while the driver's current socket is
\* open, and a close or error event of another socket, one the driver has discarded,
\* leaves isConnected true for the open current socket and settles no test.
C34_StaleSocketEventsIgnored ==
  /\ sdk.isConnected => CurrentOpen
  /\ (sdk.isConnected /\ CurrentOpen) =>
       \A s \in Sockets \ {sdk.ws} :
         /\ CanClose(s) => (Close(s).isConnected /\ Close(s).fx.settled = <<>>)
         /\ CanFail(s) => (Fail(s).isConnected /\ Fail(s).fx.settled = <<>>)

\* The state in which runFullTest(o) of SdkNew, called now, runs the caller's
\* onProgress(0): nothing but the call's own variables is set by then.
AtFirstProgress(o) ==
  LET k == NextCall(World) IN UserProgress(NewCall(World, k, "full", Null, o), k, Rat(0, 1))

\* C35: in SdkNew, while a runFullTest call has not settled, every call of a test method
\* fails at once with 'A test is already in progress': a call made between two events,
\* and a call made from inside the onProgress(0) callback of runFullTest.
C35_FullTestExcludesCalls ==
  sdkClass = "New" =>
    /\ FullTests # {} =>
         \A meth \in Methods, o \in OptsSet :
           ThrewAtOnce(TestCall(meth, o), "A test is already in progress")
    /\ (~sdk.testInProgress /\ NextCall(World) # Null) =>
         \A o \in OptsSet, kind \in {"ping", "download", "upload"} :
           o.onProgress =>
             New_test(AtFirstProgress(o), kind, Null, o)
               = Throw(AtFirstProgress(o), Null, "A test is already in progress")

\* C36: during one download test, the values the driver passes to the progress handler
\* never decrease, fed as they are by the binary frames and by the download_progress
\* messages of the server.
C36_DownloadProgressMonotone == peer.monotone

\* C37: every download request the server has received ends for the client with
\* download_complete or with a failure it sees: once the server's chunk chain is over
\* (complete, or given up on a failed send), every socket is closed and nothing is
\* scheduled any more, the promise of that download test is not left pending.
ChainOver(d) ==
  /\ downloads[d].pc \in {"done", "failed"}
  /\ downloads[d].requestId \in Calls
  /\ call[downloads[d].requestId].kind = "download"

C37_DownloadEndsOrFails ==
  \A d \in Downloads :
    (Quiescent /\ ChainOver(d)) => call[downloads[d].requestId].promise # "pending"

====
